---------------------------- MODULE Spec2Model ----------------------------
(***************************************************************************)
(* A model of the Seraphic Calibration Shell (src/scs): the configuration  *)
(* space, the performance triplet, the Mandorla field, the double-kick     *)
(* operator, Proof-of-Resonance, the CRI resonance impulse and the         *)
(* calibrator that orchestrates them.                                      *)
(*                                                                         *)
(* Numbers.  Python floats are modelled in fixed point:                    *)
(*   - a performance component (psi, rho, omega) is an integer number of   *)
(*     hundredths, so 1.0 is 100 and 0.5 is 50;                            *)
(*   - J = psi * rho * omega is an integer number of millionths;           *)
(*   - a learning rate is an integer number of ten-thousandths;            *)
(*   - a field or injection component, a norm and a resonance are integer  *)
(*     numbers of thousandths; a kick score is in thousandths too.         *)
(* Divisions round towards minus infinity.                                 *)
(***************************************************************************)
EXTENDS Integers, Sequences, FiniteSets, TLC

(***************************************************************************)
(* Bounds of the model and configured parameters.                          *)
(***************************************************************************)
\* ResonanceImpulseConfig.min_steps as configured for the model's runs
MinSteps == 2
\* GlobalCalibrationState.window_size as configured for the model's runs
WindowSize == 2
\* neighbours sampled by one kick
NumNeighbors == 2
\* calibration steps explored: enough for the first impulse (initialize
\* makes one CRI update), and, in the long runs, for a second and a third
MaxSteps == MinSteps
MaxRunSteps == 2 * MinSteps

\* 1.0 as a performance component, in hundredths
One == 100
\* the field dimension m
Dim == 16
\* An Optional value: None is the empty sequence, a value x is <<x>>
None == <<>>
Some(x) == <<x>>
The(o) == o[1]

Min(a, b) == IF a <= b THEN a ELSE b
Max(a, b) == IF a >= b THEN a ELSE b
Abs(a) == IF a >= 0 THEN a ELSE -a

RECURSIVE SumSeq(_)
SumSeq(s) == IF s = <<>> THEN 0 ELSE Head(s) + SumSeq(Tail(s))

\* the last n elements of s (Python's s[-n:], n > 0)
LastN(s, n) == IF Len(s) <= n THEN s ELSE SubSeq(s, Len(s) - n + 1, Len(s))

\* integer square root, by bisection: the r with r*r <= n < (r+1)*(r+1)
RECURSIVE SqrtBetween(_, _, _)
SqrtBetween(n, lo, hi) ==
    IF lo >= hi THEN lo
    ELSE LET mid == (lo + hi + 1) \div 2
         IN  IF mid * mid <= n THEN SqrtBetween(n, mid, hi)
                               ELSE SqrtBetween(n, lo, mid - 1)
ISqrt(n) == SqrtBetween(n, 0, Min(n, 46340))

\* integer cube root, by bisection
RECURSIVE CbrtBetween(_, _, _)
CbrtBetween(n, lo, hi) ==
    IF lo >= hi THEN lo
    ELSE LET mid == (lo + hi + 1) \div 2
         IN  IF mid * mid * mid <= n THEN CbrtBetween(n, mid, hi)
                                     ELSE CbrtBetween(n, lo, mid - 1)
ICbrt(n) == CbrtBetween(n, 0, Min(n, 1290))

(***************************************************************************)
(* config.py: Configuration and ConfigurationSpace                         *)
(***************************************************************************)
ALGORITHMS == {"VQE", "QAOA", "QuantumWalk", "Grover", "Boson", "VQC", "Integration"}
ANSATZ_TYPES == {"HardwareEfficient", "EfficientSU2", "Metatron"}
\* OPTIMIZERS is a list: random.choice draws from it
OPTIMIZERS == {"Adam", "LBFGS", "GradientDescent", "COBYLA"}

\* Configuration(...): the fields the calibration code reads or writes.
\* dephasing_rate, shot_count, params and timestamp are carried along
\* unread and are left out.
Configuration(alg, at, depth, opt, lr, iters, starts, nm) ==
    [algorithm |-> alg, ansatz_type |-> at, ansatz_depth |-> depth,
     optimizer |-> opt, learning_rate |-> lr, max_iterations |-> iters,
     num_random_starts |-> starts, name |-> nm]

default_configuration ==
    Configuration("VQE", "Metatron", 2, "Adam", 100, 100, 1, "default")

is_valid(config) ==
    IF config.algorithm \notin ALGORITHMS THEN FALSE
    ELSE IF config.ansatz_type \notin ANSATZ_TYPES THEN FALSE
    ELSE IF config.optimizer \notin OPTIMIZERS THEN FALSE
    ELSE IF config.ansatz_depth < 1 \/ config.ansatz_depth > 10 THEN FALSE
    ELSE IF config.learning_rate <= 0 \/ config.learning_rate > 10000 THEN FALSE
    ELSE IF config.max_iterations < 1 THEN FALSE
    ELSE TRUE

\* Configuration.to_dict / from_dict: asdict, and the constructor applied to
\* the keys that are dataclass fields
ConfigFields ==
    {"algorithm", "ansatz_type", "ansatz_depth", "optimizer", "learning_rate",
     "max_iterations", "num_random_starts", "name"}
config_to_dict(config) == [k \in ConfigFields |-> config[k]]
config_from_dict(data) ==
    LET filtered == [k \in (DOMAIN data) \cap ConfigFields |-> data[k]]
    IN  Configuration(filtered.algorithm, filtered.ansatz_type,
                      filtered.ansatz_depth, filtered.optimizer,
                      filtered.learning_rate, filtered.max_iterations,
                      filtered.num_random_starts, filtered.name)

\* Configuration.distance, in thousandths
distance(a, b) ==
      (IF a.algorithm # b.algorithm THEN 1000 ELSE 0)
    + (IF a.ansatz_type # b.ansatz_type THEN 1000 ELSE 0)
    + (IF a.optimizer # b.optimizer THEN 1000 ELSE 0)
    + Abs(a.ansatz_depth - b.ansatz_depth) * 100
    + Abs(a.learning_rate - b.learning_rate)
    + Abs(a.max_iterations - b.max_iterations) * 10
    + Abs(a.num_random_starts - b.num_random_starts) * 200

\* ConfigurationSpace.set_current raises on an invalid configuration, before
\* it assigns anything
\* (a variant of the test below that lets every configuration through)
set_current_accepts_all(config) == FALSE
set_current_raises(config) == ~is_valid(config)

\* (a variant of set_current that moves the pointer and keeps no history)
set_current_without_history(space, config) ==
    [current |-> Some(config), history |-> space.history]
\* ConfigurationSpace.set_current on the space [current, history], when it
\* does not raise
set_current(space, config) ==
    [current |-> Some(config), history |-> Append(space.history, config)]

\* One random draw of generate_neighbors: the parameter chosen and the value
\* drawn for it (a step, a factor in hundredths, or the new enum value).
Draws ==
       [param : {"ansatz_depth"}, val : {-1, 0, 1}]
  \cup [param : {"learning_rate"}, val : {80, 100, 120}]
  \cup [param : {"max_iterations"}, val : {-20, -10, 0, 10, 20}]
  \cup [param : {"num_random_starts"}, val : {-1, 0, 1}]
  \cup [param : {"optimizer"}, val : OPTIMIZERS]
  \cup [param : {"ansatz_type"}, val : ANSATZ_TYPES]

\* the neighbour one draw yields: a copy of config with one field perturbed
\* (a variant of the perturbation below whose max_iterations has no upper clamp)
perturb_unclamped(config, d) ==
    IF d.param = "ansatz_depth" THEN
        [config EXCEPT !.ansatz_depth = Max(1, Min(10, config.ansatz_depth + d.val))]
    ELSE IF d.param = "learning_rate" THEN
        [config EXCEPT !.learning_rate =
            Max(10, Min(1000, (config.learning_rate * d.val) \div 100))]
    ELSE IF d.param = "max_iterations" THEN
        [config EXCEPT !.max_iterations = Max(10, config.max_iterations + d.val)]
    ELSE IF d.param = "num_random_starts" THEN
        [config EXCEPT !.num_random_starts =
            Max(1, Min(5, config.num_random_starts + d.val))]
    ELSE IF d.param = "optimizer" THEN [config EXCEPT !.optimizer = d.val]
    ELSE [config EXCEPT !.ansatz_type = d.val]
perturb(config, d) ==
    IF d.param = "ansatz_depth" THEN
        [config EXCEPT !.ansatz_depth = Max(1, Min(10, config.ansatz_depth + d.val))]
    ELSE IF d.param = "learning_rate" THEN
        [config EXCEPT !.learning_rate =
            Max(10, Min(1000, (config.learning_rate * d.val) \div 100))]
    ELSE IF d.param = "max_iterations" THEN
        [config EXCEPT !.max_iterations = Max(10, Min(500, config.max_iterations + d.val))]
    ELSE IF d.param = "num_random_starts" THEN
        [config EXCEPT !.num_random_starts =
            Max(1, Min(5, config.num_random_starts + d.val))]
    ELSE IF d.param = "optimizer" THEN [config EXCEPT !.optimizer = d.val]
    ELSE [config EXCEPT !.ansatz_type = d.val]

\* generate_neighbors(config, Len(draws)): one neighbour per draw, the
\* invalid ones discarded
\* (a variant of the function below that discards nothing)
generate_neighbors_unfiltered(config, draws) ==
    [i \in 1..Len(draws) |-> perturb(config, draws[i])]
RECURSIVE generate_neighbors(_, _)
generate_neighbors(config, draws) ==
    IF draws = <<>> THEN <<>>
    ELSE LET neighbor == perturb(config, Head(draws))
             rest == generate_neighbors(config, Tail(draws))
         IN  IF is_valid(neighbor) THEN <<neighbor>> \o rest ELSE rest


(***************************************************************************)
(* performance.py: PerformanceTriplet and its aggregation from benchmarks  *)
(***************************************************************************)
\* PerformanceTriplet(psi, rho, omega); __post_init__ raises unless every
\* component is in [0, 1], which triplet_ok tests
PerformanceTriplet(p, r, o) == [psi |-> p, rho |-> r, omega |-> o]
triplet_ok(t) == \A k \in {"psi", "rho", "omega"} : 0 <= t[k] /\ t[k] <= One

perf_to_dict(t) == [psi |-> t.psi, rho |-> t.rho, omega |-> t.omega]

\* PerformanceTriplet.norm, harmonic_mean, geometric_mean, in thousandths
perf_norm(t) == ISqrt(100 * (t.psi * t.psi + t.rho * t.rho + t.omega * t.omega))
harmonic_mean(t) ==
    IF t.psi = 0 \/ t.rho = 0 \/ t.omega = 0 THEN 0
    ELSE (30 * t.psi * t.rho * t.omega)
            \div (t.rho * t.omega + t.psi * t.omega + t.psi * t.rho)
geometric_mean(t) == ICbrt(1000 * t.psi * t.rho * t.omega)

\* The benchmark directory: a function from the families whose file exists
\* to that file's payload.  A payload is of kind "corrupt" (not JSON:
\* json.load raises), "malformed" (JSON of the wrong shape: the family's
\* extractor raises) or "ok", and then holds the three estimates the
\* family's extractors derive from it (unclamped).
Payload(p, r, o) == [kind |-> "ok", psi |-> p, rho |-> r, omega |-> o]
CorruptPayload == [kind |-> "corrupt", psi |-> 0, rho |-> 0, omega |-> 0]
MalformedPayload == [kind |-> "malformed", psi |-> 0, rho |-> 0, omega |-> 0]
Families ==
    {"vqe", "qaoa", "quantum_walk", "advanced", "vqc", "cross_system", "integration"}
Extracted == {"vqe", "qaoa", "cross_system"}

\* BenchmarkLoader.load_all_benchmarks: a missing file is skipped, any other
\* error propagates
load_raises(dir) == \E f \in DOMAIN dir : dir[f].kind = "corrupt"
load_all_benchmarks(dir) == dir

\* the default algorithm_weights, in tenths
algorithm_weights(name) ==
    IF name \in {"vqe", "qaoa"} THEN 10
    ELSE IF name = "cross_system" THEN 15
    ELSE 5

\* algorithm_weights when the caller passes none
default_weights == [name \in Families |-> algorithm_weights(name)]

\* algorithm_weights.get(name, 0.5), in tenths
weight_of(weights, name) == IF name \in DOMAIN weights THEN weights[name] ELSE 5

\* the families compute_performance_triplet takes an estimate from, under
\* the given weights
contributing_with(benchmarks, weights) ==
    {f \in DOMAIN benchmarks : weight_of(weights, f) > 0 /\ f \in Extracted}
compute_raises_with(benchmarks, weights) ==
    \E f \in contributing_with(benchmarks, weights) : benchmarks[f].kind = "malformed"

RECURSIVE WeightedSumWith(_, _, _, _)
WeightedSumWith(benchmarks, weights, fams, k) ==
    IF fams = {} THEN 0
    ELSE LET f == CHOOSE x \in fams : TRUE
         IN  weight_of(weights, f) * benchmarks[f][k]
               + WeightedSumWith(benchmarks, weights, fams \ {f}, k)
RECURSIVE WeightTotalWith(_, _)
WeightTotalWith(weights, fams) ==
    IF fams = {} THEN 0
    ELSE LET f == CHOOSE x \in fams : TRUE
         IN  weight_of(weights, f) + WeightTotalWith(weights, fams \ {f})

\* (a variant of the clamp below that returns the average as it is)
clamp_none(x) == x
\* max(0.0, min(1.0, x))
clamp(x) == Max(0, Min(One, x))

\* compute_performance_triplet(benchmarks, algorithm_weights)
compute_performance_triplet_with(benchmarks, weights) ==
    LET fams == contributing_with(benchmarks, weights)
        avg(k) == WeightedSumWith(benchmarks, weights, fams, k)
                     \div WeightTotalWith(weights, fams)
    IN  IF fams = {} THEN PerformanceTriplet(50, 50, 50)
        ELSE PerformanceTriplet(clamp(avg("psi")), clamp(avg("rho")),
                                clamp(avg("omega")))

\* the same under the default weights
contributing(benchmarks) == contributing_with(benchmarks, default_weights)
compute_raises(benchmarks) == compute_raises_with(benchmarks, default_weights)
WeightedSum(benchmarks, fams, k) == WeightedSumWith(benchmarks, default_weights, fams, k)
WeightTotal(fams) == WeightTotalWith(default_weights, fams)

\* compute_performance_triplet(benchmarks)
compute_performance_triplet(benchmarks) ==
    compute_performance_triplet_with(benchmarks, default_weights)

(***************************************************************************)
(* field.py: MandorlaField and SeraphicFeedback                            *)
(***************************************************************************)
\* sin(2 pi i / 16) in thousandths, for i = 0 .. 15
SinTable ==
    <<0, 383, 707, 924, 1000, 924, 707, 383,
      0, -383, -707, -924, -1000, -924, -707, -383>>
Sin16(i) == SinTable[(i % 16) + 1]
Cos16(i) == Sin16(i + 4)

Zeros == [i \in 1..Dim |-> 0]
Dot(u, v) == SumSeq([i \in 1..Len(u) |-> u[i] * v[i]])
\* np.linalg.norm
Norm(v) == ISqrt(Dot(v, v))

\* MandorlaField(dimension): zero state, one zero submodule per beta weight
NumSubmodules == 3
MandorlaField(dimension) ==
    [dimension |-> dimension,
     field_state |-> [i \in 1..dimension |-> 0],
     submodule_states |-> [k \in 1..NumSubmodules |-> [i \in 1..dimension |-> 0]]]

\* MandorlaField.update: alpha = 0.95, beta_i = 0.1, gamma = 0.5; the caller
\* checks the injection's length first (the method raises on a mismatch)
update_raises(field, injection) == Len(injection) # field.dimension
\* (a variant of the update below that skips the normalisation)
field_update_unnormalized(field, injection) ==
    [field EXCEPT !.field_state = [i \in 1..field.dimension |->
            (95 * field.field_state[i]
               + 10 * SumSeq([k \in 1..NumSubmodules |-> field.submodule_states[k][i]])
               + 50 * injection[i]) \div 100]]
field_update(field, injection) ==
    LET new_state == [i \in 1..field.dimension |->
            (95 * field.field_state[i]
               + 10 * SumSeq([k \in 1..NumSubmodules |-> field.submodule_states[k][i]])
               + 50 * injection[i]) \div 100]
        norm == Norm(new_state)
    IN  [field EXCEPT !.field_state =
            IF norm > 0 THEN [i \in 1..field.dimension |-> (new_state[i] * 1000) \div norm]
                        ELSE new_state]

algorithm_map(algorithm) ==
    IF algorithm \in {"VQE", "Grover"} THEN 0
    ELSE IF algorithm \in {"QAOA", "Boson"} THEN 1
    ELSE IF algorithm \in {"QuantumWalk", "VQC"} THEN 2
    ELSE 0

\* MandorlaField.update_submodules
update_submodules(field, performance, algorithm) ==
    LET idx == (algorithm_map(algorithm) % NumSubmodules) + 1
        encoded == [i \in 1..field.dimension |->
            IF i = 1 THEN 10 * performance.psi
            ELSE IF i = 2 THEN 10 * performance.rho
            ELSE IF i = 3 THEN 10 * performance.omega
            ELSE IF i = 4 THEN harmonic_mean(performance)
            ELSE IF i = 5 THEN geometric_mean(performance)
            ELSE (Sin16(i - 1) * performance.psi) \div 100]
    IN  [field EXCEPT !.submodule_states[idx] =
            [i \in 1..field.dimension |->
                (8 * field.submodule_states[idx][i] + 2 * encoded[i]) \div 10]]

\* MandorlaField.resonance_with: the cosine of the angle between the field
\* state and the injection, 0 when either is the zero vector
resonance_with(field, injection) ==
    LET nf == Norm(field.field_state)
        ni == Norm(injection)
    IN  IF nf = 0 \/ ni = 0 THEN 0
        ELSE ((Dot(field.field_state, injection) \div nf) * 1000) \div ni

\* MandorlaField.to_dict / from_dict (alpha, gamma and the beta weights are
\* the class defaults throughout)
field_to_dict(field) ==
    [dimension |-> field.dimension, field_state |-> field.field_state,
     submodule_states |-> field.submodule_states]
field_from_dict(data) ==
    [MandorlaField(data.dimension) EXCEPT
        !.field_state = data.field_state,
        !.submodule_states = data.submodule_states]

\* SeraphicFeedback.encode
encode(performance) ==
    [i \in 1..Dim |->
        IF i = 1 THEN 10 * performance.psi
        ELSE IF i = 2 THEN 10 * performance.rho
        ELSE IF i = 3 THEN 10 * performance.omega
        ELSE IF i = 4 THEN harmonic_mean(performance)
        ELSE IF i = 5 THEN geometric_mean(performance)
        ELSE IF i = 6 THEN perf_norm(performance)
        ELSE IF i = 7 THEN (performance.psi * performance.rho) \div 10
        ELSE IF i = 8 THEN (performance.psi * performance.omega) \div 10
        ELSE IF i = 9 THEN (performance.psi * performance.rho * performance.omega) \div 1000
        ELSE (4 * Sin16(i - 1) * performance.psi
                + 3 * Cos16(i - 1) * performance.rho
                + 3 * Sin16(2 * (i - 1)) * performance.omega) \div 1000]

\* SeraphicFeedback.encode_from_benchmarks
encode_from_benchmarks(benchmarks) == encode(compute_performance_triplet(benchmarks))

(***************************************************************************)
(* operators.py: the update kick, the stabilization kick, their composition *)
(***************************************************************************)
\* UpdateKick._estimate_quality_improvement, in thousandths
estimate_quality_improvement(current, candidate, current_perf) ==
    LET s0 == 10 * current_perf.psi
        s1 == IF candidate.ansatz_type = "Metatron"
                 /\ 1 <= candidate.ansatz_depth /\ candidate.ansatz_depth <= 3
              THEN s0 + 50 ELSE s0
        s2 == IF candidate.optimizer = "Adam" THEN s1 + 20 ELSE s1
        s3 == IF candidate.num_random_starts > current.num_random_starts
              THEN s2 + 10 * (candidate.num_random_starts - current.num_random_starts)
              ELSE s2
        s4 == IF 50 <= candidate.learning_rate /\ candidate.learning_rate <= 200
              THEN s3 + 20 ELSE s3
    IN  Min(1000, s4)

\* (a variant of the loop below in which a neighbor that equals the best
\* score replaces the best)
RECURSIVE update_best_last(_, _, _, _, _)
update_best_last(config, perf, neighbors, best_score, best_neighbor) ==
    IF neighbors = <<>> THEN best_neighbor
    ELSE LET score == estimate_quality_improvement(config, Head(neighbors), perf)
         IN  IF score >= best_score
             THEN update_best_last(config, perf, Tail(neighbors), score, Head(neighbors))
             ELSE update_best_last(config, perf, Tail(neighbors), best_score, best_neighbor)
\* the loop of UpdateKick.apply over neighbors[i..]: <<best_score, best_neighbor>>
RECURSIVE update_best(_, _, _, _, _)
update_best(config, perf, neighbors, best_score, best_neighbor) ==
    IF neighbors = <<>> THEN best_neighbor
    ELSE LET score == estimate_quality_improvement(config, Head(neighbors), perf)
         IN  IF score > best_score
             THEN update_best(config, perf, Tail(neighbors), score, Head(neighbors))
             ELSE update_best(config, perf, Tail(neighbors), best_score, best_neighbor)

\* UpdateKick.apply, on the draws generate_neighbors makes
UpdateKick_apply(config, current_performance, draws) ==
    LET neighbors == generate_neighbors(config, draws)
    IN  IF neighbors = <<>> THEN config
        ELSE update_best(config, current_performance, neighbors,
                         10 * current_performance.psi, config)

\* StabilizationKick._estimate_stability_improvement, in ten-thousandths
estimate_stability_improvement(current, candidate, current_perf) ==
    LET r0 == 10 * current_perf.rho
        o0 == 10 * current_perf.omega
        r1 == IF candidate.num_random_starts >= 3 THEN r0 + 50 ELSE r0
        r2 == IF candidate.ansatz_depth <= 2 THEN r1 + 30 ELSE r1
        o1 == IF candidate.ansatz_depth < current.ansatz_depth THEN o0 + 50 ELSE o0
        o2 == IF candidate.max_iterations < current.max_iterations THEN o1 + 20 ELSE o1
    IN  Min(10000, 6 * r2 + 4 * o2)

RECURSIVE stabilization_best(_, _, _, _, _)
stabilization_best(config, perf, neighbors, best_score, best_neighbor) ==
    IF neighbors = <<>> THEN best_neighbor
    ELSE LET score == estimate_stability_improvement(config, Head(neighbors), perf)
         IN  IF score > best_score
             THEN stabilization_best(config, perf, Tail(neighbors), score, Head(neighbors))
             ELSE stabilization_best(config, perf, Tail(neighbors), best_score, best_neighbor)

\* StabilizationKick.apply
StabilizationKick_apply(config, current_performance, draws) ==
    LET neighbors == generate_neighbors(config, draws)
    IN  IF neighbors = <<>> THEN config
        ELSE stabilization_best(config, current_performance, neighbors,
                                60 * current_performance.rho + 40 * current_performance.omega,
                                config)

\* DoubleKickOperator.apply: the stabilization kick of the update kick
DoubleKick_apply(config, current_performance, draws_u, draws_v) ==
    StabilizationKick_apply(
        UpdateKick_apply(config, current_performance, draws_u),
        current_performance, draws_v)

\* the loop of DoubleKickOperator.iterate from application i on, the kicks
\* of application k drawing schedule[k]; performance stays the caller's.
\* The result holds the loop's `current` and `distances`.
RECURSIVE iterate_from(_, _, _, _, _)
iterate_from(current, performance, schedule, i, distances) ==
    IF i > Len(schedule) THEN [current |-> current, distances |-> distances]
    ELSE LET next_config == DoubleKick_apply(current, performance,
                                             schedule[i][1], schedule[i][2])
             dist == distance(current, next_config)
         IN  IF dist < 10
             THEN [current |-> current, distances |-> Append(distances, dist)]
             ELSE iterate_from(next_config, performance, schedule, i + 1,
                               Append(distances, dist))

\* (a variant of the rate below that reports a single distance as the
\* ratio of it to itself)
convergence_rate_of_one(distances) ==
    IF Len(distances) >= 2
    THEN (1000 * distances[Len(distances)]) \div distances[1]
    ELSE IF Len(distances) = 1 THEN 1000
    ELSE 0
\* distances[-1] / (distances[0] + 1e-10), in thousandths, or 0.0
convergence_rate(distances) ==
    IF Len(distances) >= 2
    THEN (1000 * distances[Len(distances)]) \div distances[1]
    ELSE 0

\* DoubleKickOperator.iterate with num_iterations = Len(schedule): the final
\* configuration, the convergence rate, and the distances it recorded
iterate(config, performance, schedule) ==
    LET loop == iterate_from(config, performance, schedule, 1, <<>>)
    IN  [config |-> loop.current, convergence_rate |-> convergence_rate(loop.distances),
         distances |-> loop.distances]

\* DoubleKickOperator.is_contractive
is_contractive(distances) ==
    IF Len(distances) < 2 THEN FALSE
    ELSE \A i \in 2..Len(distances) : ~(distances[i] >= distances[i - 1])

(***************************************************************************)
(* por.py: Proof-of-Resonance                                              *)
(***************************************************************************)
\* PoRCriteria(): the default thresholds (performance in hundredths, the
\* resonance in thousandths)
PoRCriteria ==
    [min_quality_delta |-> 0, stability_tolerance |-> 10,
     min_efficiency |-> 30, min_field_resonance |-> 0]

check_quality(criteria, current, candidate) ==
    candidate.psi >= current.psi + criteria.min_quality_delta
check_stability(criteria, current, candidate) ==
    candidate.rho >= current.rho - criteria.stability_tolerance
\* (a variant of the efficiency test below with a strict comparison)
check_efficiency_strict(criteria, candidate) ==
    candidate.omega > criteria.min_efficiency
check_efficiency(criteria, candidate) ==
    candidate.omega >= criteria.min_efficiency
check_field_resonance(criteria, field, injection) ==
    resonance_with(field, injection) >= criteria.min_field_resonance

\* ProofOfResonance.check; field and candidate_injection are Optional
por_check(criteria, current_performance, candidate_performance, field, candidate_injection) ==
    IF ~check_quality(criteria, current_performance, candidate_performance) THEN FALSE
    ELSE IF ~check_stability(criteria, current_performance, candidate_performance)
    THEN FALSE
    ELSE IF ~check_efficiency(criteria, candidate_performance) THEN FALSE
    ELSE IF field # None /\ candidate_injection # None
            /\ ~check_field_resonance(criteria, The(field), The(candidate_injection))
    THEN FALSE
    ELSE TRUE

\* the overall verdict of detailed_check: all([...]) of the four flags
\* (a variant of the verdict below that leaves the resonance flag out)
overall_of_performance(quality_pass, stability_pass, efficiency_pass, resonance_pass) ==
    quality_pass /\ stability_pass /\ efficiency_pass
overall_of(quality_pass, stability_pass, efficiency_pass, resonance_pass) ==
    quality_pass /\ stability_pass /\ efficiency_pass /\ resonance_pass

\* ProofOfResonance.detailed_check
detailed_check(criteria, current_performance, candidate_performance, field, candidate_injection) ==
    LET quality_pass ==
            check_quality(criteria, current_performance, candidate_performance)
        stability_pass ==
            check_stability(criteria, current_performance, candidate_performance)
        efficiency_pass == check_efficiency(criteria, candidate_performance)
        field_resonance ==
            IF field # None /\ candidate_injection # None
            THEN [pass |-> check_field_resonance(criteria, The(field),
                                                 The(candidate_injection)),
                  resonance |-> Some(resonance_with(The(field),
                                                    The(candidate_injection)))]
            ELSE [pass |-> TRUE, resonance |-> None]
    IN  [quality |-> [pass |-> quality_pass,
                      current |-> current_performance.psi,
                      candidate |-> candidate_performance.psi,
                      delta |-> candidate_performance.psi - current_performance.psi],
         stability |-> [pass |-> stability_pass,
                        current |-> current_performance.rho,
                        candidate |-> candidate_performance.rho,
                        delta |-> candidate_performance.rho - current_performance.rho,
                        tolerance |-> criteria.stability_tolerance],
         efficiency |-> [pass |-> efficiency_pass,
                         candidate |-> candidate_performance.omega,
                         min_threshold |-> criteria.min_efficiency],
         field_resonance |-> field_resonance,
         overall |-> overall_of(quality_pass, stability_pass, efficiency_pass,
                                field_resonance.pass)]

(***************************************************************************)
(* cri.py: GlobalCalibrationState and ResonanceImpulse                     *)
(***************************************************************************)
\* J(t) = psi * rho * omega, in millionths
J(performance) == performance.psi * performance.rho * performance.omega

\* GlobalCalibrationState.update: the history after the call (the call
\* returns J(performance), its last entry)
\* (a variant of the update below that never truncates)
gcs_update_unbounded(history, performance) == Append(history, J(performance))
gcs_update(history, performance) ==
    LET appended == Append(history, J(performance))
    IN  IF Len(appended) > WindowSize * 2
        THEN LastN(appended, WindowSize * 2)
        ELSE appended

\* GlobalCalibrationState.current_value
current_value(history) == IF history # <<>> THEN history[Len(history)] ELSE 0

\* history[-2w : -w]
OlderWindow(history) ==
    SubSeq(history, Len(history) - 2 * WindowSize + 1, Len(history) - WindowSize)

\* np.var(xs) <= threshold, exactly.  With n = Len(xs) and S = sum(xs) the
\* variance is sum((n*x - S)^2) / n^3; x is in millionths and the threshold
\* in hundredths, so the test is sum((n*x - S)^2) <= threshold * n^3 * 10^10.
\* The sum of squares is kept in two limbs of six decimal digits.
SquareLimbs(d) ==
    LET a == Abs(d) \div 1000
        b == Abs(d) % 1000
    IN  [hi |-> a * a + (2 * a * b) \div 1000,
         lo |-> ((2 * a * b) % 1000) * 1000 + b * b]
variance_at_most(xs, threshold) ==
    LET n == Len(xs)
        S == SumSeq(xs)
        sq == [i \in 1..n |-> SquareLimbs(n * xs[i] - S)]
        lo == SumSeq([i \in 1..n |-> sq[i].lo])
        hi == SumSeq([i \in 1..n |-> sq[i].hi]) + lo \div 1000000
        limit == threshold * n * n * n * 10000
    IN  hi < limit \/ (hi = limit /\ lo % 1000000 = 0)

\* GlobalCalibrationState.is_stagnating(threshold), threshold in hundredths
\* (a variant of the test below that ignores the trend)
is_stagnating_by_variance(history, threshold) ==
    /\ Len(history) >= WindowSize
    /\ variance_at_most(LastN(history, WindowSize), threshold)
is_stagnating(history, threshold) ==
    IF Len(history) < WindowSize THEN FALSE
    ELSE LET recent == LastN(history, WindowSize)
         IN  IF ~variance_at_most(recent, threshold) THEN FALSE
             ELSE IF Len(history) >= WindowSize * 2
                     /\ SumSeq(recent) >
                          SumSeq(OlderWindow(history)) + WindowSize * threshold * 10000
             THEN FALSE
             ELSE TRUE

\* GlobalCalibrationState.is_degrading(threshold), threshold in hundredths
is_degrading(history, threshold) ==
    IF Len(history) < WindowSize * 2 THEN FALSE
    ELSE SumSeq(LastN(history, WindowSize)) <
            SumSeq(OlderWindow(history)) - WindowSize * threshold * 10000

\* ResonanceImpulseConfig: min_steps is MinSteps; the thresholds are in
\* hundredths, the field resonance in thousandths
ResonanceImpulseConfig ==
    [min_steps |-> MinSteps, stagnation_threshold |-> 1,
     degradation_threshold |-> 5, min_field_resonance |-> 300]

\* ResonanceImpulse(): its global_state.history and its counter
ResonanceImpulse == [steps_since_last_impulse |-> 0, history |-> <<>>]

\* ResonanceImpulse.update (it returns J(performance))
cri_update(cri, performance) ==
    [steps_since_last_impulse |-> cri.steps_since_last_impulse + 1,
     history |-> gcs_update(cri.history, performance)]

\* (a variant of should_trigger that waits one update longer)
should_trigger_late(cri, field) ==
    IF cri.steps_since_last_impulse <= ResonanceImpulseConfig.min_steps THEN FALSE
    ELSE IF ~(is_stagnating(cri.history, ResonanceImpulseConfig.stagnation_threshold)
              \/ is_degrading(cri.history, ResonanceImpulseConfig.degradation_threshold))
    THEN FALSE
    ELSE IF Norm(field.field_state) < ResonanceImpulseConfig.min_field_resonance
    THEN FALSE
    ELSE TRUE
\* ResonanceImpulse.should_trigger
should_trigger(cri, field) ==
    IF cri.steps_since_last_impulse < ResonanceImpulseConfig.min_steps THEN FALSE
    ELSE IF ~(is_stagnating(cri.history, ResonanceImpulseConfig.stagnation_threshold)
              \/ is_degrading(cri.history, ResonanceImpulseConfig.degradation_threshold))
    THEN FALSE
    ELSE IF Norm(field.field_state) < ResonanceImpulseConfig.min_field_resonance
    THEN FALSE
    ELSE TRUE

\* the lookup tables of _select_alternative_regime, with their defaults
ansatz_alternatives(ansatz_type) ==
    IF ansatz_type = "Metatron" THEN "EfficientSU2"
    ELSE IF ansatz_type = "EfficientSU2" THEN "HardwareEfficient"
    ELSE "Metatron"
\* (a variant of the optimizer table below whose default keeps the optimizer)
optimizer_alternatives_keeping(optimizer) ==
    IF optimizer = "Adam" THEN "LBFGS"
    ELSE IF optimizer = "LBFGS" THEN "GradientDescent"
    ELSE optimizer
optimizer_alternatives(optimizer) ==
    IF optimizer = "Adam" THEN "LBFGS"
    ELSE IF optimizer = "LBFGS" THEN "GradientDescent"
    ELSE "Adam"

\* ResonanceImpulse._select_alternative_regime
select_alternative_regime(current) ==
    LET c1 == IF current.algorithm = "VQE"
              THEN [current EXCEPT !.algorithm = "QAOA", !.ansatz_depth = 3]
              ELSE IF current.algorithm = "QAOA"
              THEN [current EXCEPT !.algorithm = "VQE", !.ansatz_depth = 2]
              ELSE [current EXCEPT !.algorithm = "VQE"]
        c2 == [c1 EXCEPT !.ansatz_type = ansatz_alternatives(current.ansatz_type)]
        c3 == [c2 EXCEPT !.optimizer = optimizer_alternatives(current.optimizer)]
        new_config == [c3 EXCEPT !.learning_rate =
                 IF c3.optimizer = "Adam" THEN 100
                 ELSE IF c3.optimizer = "LBFGS" THEN 1000
                 ELSE 50]
    IN  IF is_valid(new_config) THEN new_config ELSE default_configuration

\* ResonanceImpulse.apply_impulse: the counter reset, and the configuration
\* returned
\* (a variant of the reset below that keeps the counter)
apply_impulse_keeping_counter(cri) == cri
apply_impulse_cri(cri) == [cri EXCEPT !.steps_since_last_impulse = 0]
apply_impulse(current_config) == select_alternative_regime(current_config)

\* ResonanceImpulse.get_diagnostics
get_diagnostics(cri) ==
    [steps_since_impulse |-> cri.steps_since_last_impulse,
     current_j_t |-> current_value(cri.history),
     is_stagnating |-> is_stagnating(cri.history, 1),
     is_degrading |-> is_degrading(cri.history, 5),
     history_length |-> Len(cri.history),
     j_t_history |-> LastN(cri.history, 10)]

(***************************************************************************)
(* calibrator.py: SeraphicCalibrator                                       *)
(***************************************************************************)
VARIABLES
    bench_dir,            \* the benchmark directory's files
    current_config,       \* Optional[Configuration]
    current_performance,  \* Optional[PerformanceTriplet]
    step_count,
    field,                \* the MandorlaField
    cri,                  \* the ResonanceImpulse
    config_space,         \* the ConfigurationSpace: current and history
    history,              \* CalibrationHistory.steps
    state_file,           \* the state file: None or the dict saved last
    call,                 \* the arguments of the last call of a pure method
    ret,                  \* what the last call returned or raised
    j_log,                \* every J the CRI was given, in arrival order
    twin,                 \* a calibrator run before this one, to compare with
    history_file,         \* the history file: None or the list saved last
    initialized,          \* AutoTuner._initialized
    tuner_ret,            \* what the last call of the AutoTuner returned or raised
    cli                   \* the position of the running cli.py command

vars == <<bench_dir, current_config, current_performance, step_count, field,
          cri, config_space, history, state_file, call, ret, j_log, twin,
          history_file, initialized, tuner_ret, cli>>

\* the layers above the calibrator: the AutoTuner, the CLI and the history
\* file they write
shell == <<history_file, initialized, tuner_ret, cli>>

\* no cli.py command is running
Idle == [pc |-> "idle", remaining |-> 0]

calibrator == <<current_config, current_performance, step_count, field, cri,
                config_space, history>>

\* the arguments of a call made on a component directly
NoCall ==
    [current |-> PerformanceTriplet(0, 0, 0), candidate |-> PerformanceTriplet(0, 0, 0),
     field |-> None, injection |-> None, config |-> None, num_neighbors |-> 0,
     record |-> None, benchmarks |-> None, weights |-> None,
     draws |-> <<>>, distances |-> <<>>, num_iterations |-> 0]

\* the result of a call: op names it, error is "none" or what it raised
Result(op, error) ==
    [op |-> op, error |-> error, step |-> 0, candidate_config |-> None,
     candidate_performance |-> None, por_result |-> FALSE, por_detailed |-> None,
     accepted |-> FALSE, j_t |-> 0, cri_triggered |-> FALSE, value |-> None]

\* the directory as a call finds it: as it is, or with the vqe file replaced
\* by one that is not JSON or by JSON of the wrong shape
Faults == {"none", "corrupt", "malformed"}
DirAt(dir, fault) ==
    IF fault = "none" THEN dir
    ELSE [f \in (DOMAIN dir) \cup {"vqe"} |->
            IF f = "vqe"
            THEN (IF fault = "corrupt" THEN CorruptPayload ELSE MalformedPayload)
            ELSE dir[f]]

\* the directories of the model
EmptyDir == [f \in {} |-> Payload(0, 0, 0)]
BenchDirs ==
    {EmptyDir,
     [f \in {"vqe"} |-> Payload(90, 60, 20)],
     [f \in {"vqe", "integration"} |->
        IF f = "vqe" THEN Payload(99, 98, 97) ELSE MalformedPayload]}

\* the seed configurations of the model: None (the default), valid seeds at
\* the edges of the space, and two invalid ones
ValidSeeds ==
    {Configuration("QAOA", "EfficientSU2", 10, "COBYLA", 10000, 1, 5, "seed"),
     Configuration("Integration", "HardwareEfficient", 1, "LBFGS", 10, 500, 3, "seed")}
InvalidSeeds ==
    {Configuration("Shor", "Metatron", 2, "Adam", 100, 100, 1, "seed"),
     Configuration("Grover", "Metatron", 0, "Adam", 100, 100, 1, "seed")}
Seeds == {None} \cup {Some(c) : c \in ValidSeeds \cup InvalidSeeds}

\* no earlier run: the seed and the draws two runs share, and what the first
\* of them produced
NoTwin == [seed |-> None, schedule |-> <<>>, first |-> None]

\* SeraphicCalibrator.__init__
Init ==
    /\ bench_dir \in BenchDirs
    /\ current_config = None
    /\ current_performance = None
    /\ step_count = 0
    /\ field = MandorlaField(Dim)
    /\ cri = ResonanceImpulse
    /\ config_space = [current |-> None, history |-> <<>>]
    /\ history = <<>>
    /\ state_file = None
    /\ call = NoCall
    /\ ret = Result("init", "none")
    /\ j_log = <<>>
    /\ twin = NoTwin
    /\ history_file = None
    /\ initialized = FALSE
    /\ tuner_ret = Result("init", "none")
    /\ cli = Idle

\* initialize raises on an invalid seed, before it assigns anything
\* (a variant of the test below that lets every seed through)
initialize_without_validation(initial_config) == FALSE
initialize_rejects(initial_config) == ~is_valid(initial_config)

\* SeraphicCalibrator.initialize(seed), on a calibrator not initialized yet
\* (cli.py and core.py call it once, on a fresh calibrator): what it does to
\* the calibrator
initialize(seed, fault) ==
    LET initial_config == IF seed = None THEN default_configuration ELSE The(seed)
        dir == DirAt(bench_dir, fault)
        benchmarks == load_all_benchmarks(dir)
        performance == compute_performance_triplet(benchmarks)
    IN
    /\ current_config = None
    /\ IF initialize_rejects(initial_config)
       THEN /\ ret' = Result("initialize", "ValueError")
            /\ UNCHANGED <<calibrator, j_log>>
       ELSE IF set_current_raises(initial_config)
       THEN \* set_current raises, after current_config was assigned
            /\ current_config' = Some(initial_config)
            /\ ret' = Result("initialize", "ValueError")
            /\ UNCHANGED <<config_space, current_performance, field, cri,
                           step_count, history, j_log>>
       ELSE IF load_raises(dir) \/ compute_raises(benchmarks)
       THEN /\ current_config' = Some(initial_config)
            /\ config_space' = set_current(config_space, initial_config)
            /\ ret' = Result("initialize",
                             IF load_raises(dir) THEN "JSONDecodeError" ELSE "TypeError")
            /\ UNCHANGED <<current_performance, field, cri, step_count, history, j_log>>
       ELSE /\ current_config' = Some(initial_config)
            /\ config_space' = set_current(config_space, initial_config)
            /\ current_performance' = Some(performance)
            /\ field' = field_update(field, encode_from_benchmarks(benchmarks))
            /\ cri' = cri_update(cri, performance)
            /\ j_log' = Append(j_log, J(performance))
            /\ ret' = Result("initialize", "none")
            /\ UNCHANGED <<step_count, history>>
    /\ call' = [NoCall EXCEPT !.config = seed]

\* initialize(seed) called on the calibrator directly
Initialize(seed, fault) ==
    /\ initialize(seed, fault)
    /\ UNCHANGED <<bench_dir, twin, shell, state_file>>

\* (a variant of the estimate below in which a shallow ansatz costs
\* efficiency instead of gaining it)
estimate_candidate_performance_tradeoff(current, config) ==
    LET p1 == IF config.ansatz_type = "Metatron"
                 /\ 1 <= config.ansatz_depth /\ config.ansatz_depth <= 3
              THEN Min(One, current.psi + 2) ELSE current.psi
        p2 == IF config.optimizer = "Adam" THEN Min(One, p1 + 1) ELSE p1
        r1 == IF config.num_random_starts >= 3 THEN Min(One, current.rho + 3)
              ELSE current.rho
        o1 == IF config.ansatz_depth <= 2 THEN Max(0, current.omega - 2)
              ELSE current.omega
    IN  PerformanceTriplet(p2, r1, o1)
\* SeraphicCalibrator._estimate_candidate_performance
estimate_candidate_performance(current, config) ==
    LET p1 == IF config.ansatz_type = "Metatron"
                 /\ 1 <= config.ansatz_depth /\ config.ansatz_depth <= 3
              THEN Min(One, current.psi + 2) ELSE current.psi
        p2 == IF config.optimizer = "Adam" THEN Min(One, p1 + 1) ELSE p1
        r1 == IF config.num_random_starts >= 3 THEN Min(One, current.rho + 3)
              ELSE current.rho
        o1 == IF config.ansatz_depth <= 2 THEN Min(One, current.omega + 2)
              ELSE current.omega
    IN  PerformanceTriplet(p2, r1, o1)

\* the draws of one kick: NumNeighbors of them
DrawSeqs(D) == [1..NumNeighbors -> D]

\* (a variant of the outcomes below in which the stabilization kick may
\* also hand back its result under the other algorithm family)
DoubleKickOutcomes_switching(config, performance, D) ==
    LET intermediates == {UpdateKick_apply(config, performance, du) : du \in DrawSeqs(D)}
        kicked == UNION {{StabilizationKick_apply(intermediate, performance, dv) :
                            dv \in DrawSeqs(D)} : intermediate \in intermediates}
    IN  kicked \cup {[c EXCEPT !.algorithm = IF @ = "VQE" THEN "QAOA" ELSE "VQE"] :
                        c \in kicked}

\* DoubleKickOperator.apply: every configuration it can return when both
\* kicks draw from D
DoubleKickOutcomes(config, performance, D) ==
    LET intermediates == {UpdateKick_apply(config, performance, du) : du \in DrawSeqs(D)}
    IN  UNION {{StabilizationKick_apply(intermediate, performance, dv) :
                    dv \in DrawSeqs(D)} : intermediate \in intermediates}

\* the record CalibrationHistory.add_step builds (the timestamp is left out)
step_record(step, config, performance, j_t, por_result, cri_triggered) ==
    [step |-> step,
     config |-> config_to_dict(config),
     performance |-> perf_to_dict(performance),
     j_t |-> j_t,
     por_accepted |-> por_result,
     cri_triggered |-> cri_triggered]

\* (a variant of add_step that keeps only the latest record of a regime)
add_step_overwriting(steps, step, config, performance, j_t, por_result, cri_triggered) ==
    LET record == step_record(step, config, performance, j_t, por_result, cri_triggered)
    IN  IF steps # <<>> /\ steps[Len(steps)].config = record.config
        THEN [steps EXCEPT ![Len(steps)] = record]
        ELSE Append(steps, record)
\* CalibrationHistory.add_step
add_step(steps, step, config, performance, j_t, por_result, cri_triggered) ==
    Append(steps, step_record(step, config, performance, j_t, por_result, cri_triggered))

\* calibration_step from the double kick on: the calibrator after the step
\* that drew `candidate`, given the field as updated by the feedback
StepFrom(field2, candidate) ==
    LET config == The(current_config)
        performance == The(current_performance)
        candidate_performance == estimate_candidate_performance(performance, candidate)
        candidate_injection == encode(candidate_performance)
        por_result == por_check(PoRCriteria, performance, candidate_performance,
                                Some(field2), Some(candidate_injection))
        por_detailed == detailed_check(PoRCriteria, performance, candidate_performance,
                                       Some(field2), Some(candidate_injection))
        config1 == IF por_result THEN candidate ELSE config
        performance1 == IF por_result THEN candidate_performance ELSE performance
        space1 == IF por_result THEN set_current(config_space, candidate)
                                ELSE config_space
        cri1 == cri_update(cri, performance1)
        j_t == J(performance1)
        triggered == should_trigger(cri1, field2)
        new_regime_config == apply_impulse(config1)
        config2 == IF triggered THEN new_regime_config ELSE config1
        result == [Result("calibration_step", "none") EXCEPT
                     !.step = step_count + 1,
                     !.candidate_config = Some(candidate),
                     !.candidate_performance = Some(candidate_performance),
                     !.por_result = por_result,
                     !.por_detailed = Some(por_detailed),
                     !.accepted = por_result,
                     !.j_t = j_t,
                     !.cri_triggered = triggered]
    IN  IF por_result /\ set_current_raises(candidate)
        THEN \* set_current raises, after the candidate was made current
            [current_config |-> Some(candidate),
             current_performance |-> Some(candidate_performance),
             config_space |-> config_space, cri |-> cri, history |-> history,
             j_log |-> j_log,
             ret |-> Result("calibration_step", "ValueError")]
        ELSE
            [current_config |-> Some(config2),
             current_performance |-> Some(performance1),
             config_space |-> IF triggered THEN set_current(space1, new_regime_config)
                                           ELSE space1,
             cri |-> IF triggered THEN apply_impulse_cri(cri1) ELSE cri1,
             history |-> add_step(history, step_count + 1, config2, performance1,
                                  j_t, por_result, triggered),
             j_log |-> Append(j_log, j_t),
             ret |-> result]

\* SeraphicCalibrator.calibration_step (the calibrator is enabled), the
\* kicks drawing from D; the model explores steps up to `limit`: what it
\* does to the calibrator
calibration_step(fault, D, limit) ==
    LET dir == DirAt(bench_dir, fault)
        benchmarks == load_all_benchmarks(dir)
        injection == encode_from_benchmarks(benchmarks)
        field1 == field_update(field, injection)
    IN
    /\ step_count < limit
    /\ IF current_config = None
       THEN /\ ret' = Result("calibration_step", "RuntimeError")
            /\ UNCHANGED <<calibrator, j_log>>
       ELSE
         /\ step_count' = step_count + 1
         /\ IF load_raises(dir) \/ compute_raises(benchmarks)
               \/ update_raises(field, injection)
            THEN /\ ret' = Result("calibration_step",
                                  IF load_raises(dir) THEN "JSONDecodeError"
                                  ELSE IF compute_raises(benchmarks) THEN "TypeError"
                                  ELSE "ValueError")
                 /\ UNCHANGED <<current_config, current_performance, field, cri,
                                config_space, history, j_log>>
            ELSE IF current_performance = None
            THEN \* update_submodules reads performance.psi of None
                 /\ field' = field1
                 /\ ret' = Result("calibration_step", "AttributeError")
                 /\ UNCHANGED <<current_config, current_performance, cri,
                                config_space, history, j_log>>
            ELSE LET field2 == update_submodules(field1, The(current_performance),
                                                 The(current_config).algorithm)
                 IN  \E candidate \in DoubleKickOutcomes(The(current_config),
                                                         The(current_performance), D) :
                        LET after == StepFrom(field2, candidate)
                        IN  /\ field' = field2
                            /\ current_config' = after.current_config
                            /\ current_performance' = after.current_performance
                            /\ config_space' = after.config_space
                            /\ cri' = after.cri
                            /\ history' = after.history
                            /\ j_log' = after.j_log
                            /\ ret' = after.ret

\* calibration_step() called on the calibrator directly
CalibrationStep(fault, D, limit) ==
    /\ calibration_step(fault, D, limit)
    /\ UNCHANGED <<bench_dir, twin, shell, state_file, call>>

\* the draws of the calibrator's runs: one of each parameter
StepDraws ==
    {[param |-> "ansatz_depth", val |-> -1],
     [param |-> "learning_rate", val |-> 120],
     [param |-> "max_iterations", val |-> -10],
     [param |-> "num_random_starts", val |-> 1],
     [param |-> "optimizer", val |-> "LBFGS"],
     [param |-> "ansatz_type", val |-> "EfficientSU2"]}

\* SeraphicCalibrator.get_best_configuration
GetBestConfiguration ==
    /\ ret' = IF current_config = None
              THEN Result("get_best_configuration", "RuntimeError")
              ELSE [Result("get_best_configuration", "none") EXCEPT
                      !.value = current_config]
    /\ UNCHANGED <<calibrator, bench_dir, twin, shell, state_file, call, j_log>>

Next ==
    \/ \E seed \in Seeds, fault \in Faults : Initialize(seed, fault)
    \/ \E fault \in Faults : CalibrationStep(fault, StepDraws, MaxSteps)
    \/ GetBestConfiguration

Spec == Init /\ [][Next]_vars

\* Long runs: the default seed, no faults, and kicks that draw one of two
\* perturbations
RunDraws ==
    {[param |-> "ansatz_depth", val |-> -1],
     [param |-> "num_random_starts", val |-> 1]}

NextRun ==
    \/ Initialize(None, "none")
    \/ CalibrationStep("none", RunDraws, MaxRunSteps)

SpecRun == Init /\ [][NextRun]_vars

(***************************************************************************)
(* calibrator.py: save_state and load_state                                *)
(***************************************************************************)
\* SeraphicCalibrator.save_state: the dict it dumps
saved_state ==
    [step_count |-> step_count,
     current_config |-> IF current_config # None
                        THEN Some(config_to_dict(The(current_config))) ELSE None,
     current_performance |-> IF current_performance # None
                             THEN Some(perf_to_dict(The(current_performance)))
                             ELSE None,
     field |-> field_to_dict(field),
     cri_diagnostics |-> get_diagnostics(cri)]

SaveState ==
    /\ state_file' = Some(saved_state)
    /\ ret' = Result("save_state", "none")
    /\ UNCHANGED <<calibrator, bench_dir, twin, shell, call, j_log>>

\* cli.py cmd_step: SeraphicCalibrator(config), then load_state() on it when
\* the state file exists. load_state assigns the step count, the
\* configuration and the performance when the file has them, and the field;
\* the rest is as the constructor left it
construct_and_load ==
    /\ LET state == The(state_file)
       IN  /\ step_count' = state.step_count
           /\ current_config' =
                 IF state.current_config # None
                 THEN Some(config_from_dict(The(state.current_config))) ELSE None
           /\ current_performance' =
                 IF state.current_performance # None
                 THEN Some(LET d == The(state.current_performance)
                           IN  PerformanceTriplet(d.psi, d.rho, d.omega))
                 ELSE None
           /\ field' = field_from_dict(state.field)
           /\ cri' = ResonanceImpulse
    /\ config_space' = [current |-> None, history |-> <<>>]
    /\ history' = <<>>
    /\ j_log' = <<>>
    /\ ret' = Result("load_state", "none")

LoadState ==
    /\ state_file # None
    /\ construct_and_load
    /\ UNCHANGED <<bench_dir, twin, shell, state_file, call>>

\* Persistence: one step at most, saved and loaded at any point
NextPersist ==
    \/ Initialize(None, "none")
    \/ CalibrationStep("none", RunDraws, 1)
    \/ SaveState
    \/ LoadState

SpecPersist == Init /\ [][NextPersist]_vars

(***************************************************************************)
(* por.py driven directly: check and detailed_check on chosen arguments    *)
(***************************************************************************)
\* the current triplet of the calls, and candidates on either side of each
\* criterion's boundary
PorCurrent == PerformanceTriplet(50, 50, 50)
PorCandidates ==
    {PerformanceTriplet(p, r, o) : p \in {49, 50, 51}, r \in {39, 40, 41},
                                   o \in {29, 30, 31}}

\* -v
Negated(v) == [i \in DOMAIN v |-> 0 - v[i]]

\* the fields of the calls: none, the constructor's zero field, and a field
\* that absorbed one injection
PorFields ==
    {None, Some(MandorlaField(Dim)),
     Some(field_update(MandorlaField(Dim), encode(PorCurrent)))}

\* the injections of the calls for a candidate: none, its encoding, and the
\* opposite vector
PorInjections(candidate) ==
    {None, Some(encode(candidate)), Some(Negated(encode(candidate)))}

\* the benchmark directory plays no part in these calls
InitPure == Init /\ bench_dir = EmptyDir

\* ProofOfResonance.check and .detailed_check on the same arguments
PorCall ==
    \E candidate \in PorCandidates, f \in PorFields :
      \E injection \in PorInjections(candidate) :
        /\ call' = [NoCall EXCEPT !.current = PorCurrent, !.candidate = candidate,
                                  !.field = f, !.injection = injection]
        /\ ret' = [Result("por", "none") EXCEPT
                     !.por_result = por_check(PoRCriteria, PorCurrent, candidate,
                                              f, injection),
                     !.por_detailed = Some(detailed_check(PoRCriteria, PorCurrent,
                                                          candidate, f, injection))]
        /\ UNCHANGED <<calibrator, bench_dir, twin, shell, state_file, j_log>>

NextPoR == PorCall

SpecPoR == InitPure /\ [][NextPoR]_vars

(***************************************************************************)
(* cri.py driven directly: update and apply_impulse on chosen arguments    *)
(***************************************************************************)
\* enough updates to overflow the J history once
MaxCriUpdates == 2 * WindowSize + 1

\* triplets whose J is 0, 1/8 and 1/4
CriPerfs ==
    {PerformanceTriplet(0, 50, 50), PerformanceTriplet(50, 50, 50),
     PerformanceTriplet(100, 50, 50)}

\* the configurations given to apply_impulse: every algorithm with every
\* optimizer, every ansatz type, and the invalid seeds
ImpulseConfigs ==
    {Configuration(a, "Metatron", 10, o, 100, 100, 1, "input") :
        a \in ALGORITHMS, o \in OPTIMIZERS}
    \cup {Configuration("VQE", t, 10, "Adam", 100, 100, 1, "input") :
            t \in ANSATZ_TYPES}
    \cup InvalidSeeds

\* ResonanceImpulse.update(performance)
CriUpdate ==
    \E performance \in CriPerfs :
        /\ Len(j_log) < MaxCriUpdates
        /\ cri' = cri_update(cri, performance)
        /\ j_log' = Append(j_log, J(performance))
        /\ call' = [NoCall EXCEPT !.candidate = performance]
        /\ ret' = [Result("cri_update", "none") EXCEPT !.j_t = J(performance)]
        /\ UNCHANGED <<bench_dir, twin, shell, current_config, current_performance, step_count,
                       field, config_space, history, state_file>>

\* ResonanceImpulse.apply_impulse(current_config, config_space, field)
CriImpulse ==
    \E config \in ImpulseConfigs :
        /\ cri' = apply_impulse_cri(cri)
        /\ call' = [NoCall EXCEPT !.config = Some(config)]
        /\ ret' = [Result("apply_impulse", "none") EXCEPT
                     !.candidate_config = Some(apply_impulse(config))]
        /\ UNCHANGED <<bench_dir, twin, shell, current_config, current_performance, step_count,
                       field, config_space, history, state_file, j_log>>

NextCRI == CriUpdate \/ CriImpulse

SpecCRI == InitPure /\ [][NextCRI]_vars

(***************************************************************************)
(* config.py driven directly: set_current and generate_neighbors           *)
(***************************************************************************)
\* how many configurations the space's history is explored up to
MaxSetCurrent == 2

\* ConfigurationSpace.set_current(config) on the calibrator's space
SpaceSetCurrent ==
    \E config \in ValidSeeds \cup InvalidSeeds :
        /\ Len(config_space.history) < MaxSetCurrent
        /\ call' = [NoCall EXCEPT !.config = Some(config)]
        /\ IF set_current_raises(config)
           THEN /\ ret' = Result("set_current", "ValueError")
                /\ UNCHANGED config_space
           ELSE /\ ret' = Result("set_current", "none")
                /\ config_space' = set_current(config_space, config)
        /\ UNCHANGED <<bench_dir, twin, shell, current_config, current_performance, step_count,
                       field, cri, history, state_file, j_log>>

NextSpace ==
    \/ \E seed \in Seeds : Initialize(seed, "none")
    \/ SpaceSetCurrent

SpecSpace == Init /\ [][NextSpace]_vars

\* the arguments of the generate_neighbors calls: configurations at the
\* edges of the clamps and beyond them, valid and invalid; up to two
\* neighbours; draws of every parameter in both directions
NeighborInputs == ValidSeeds \cup InvalidSeeds \cup {default_configuration}
NeighborCounts == 0..2
NeighborDraws ==
       [param : {"ansatz_depth"}, val : {-1, 1}]
  \cup [param : {"learning_rate"}, val : {80, 120}]
  \cup [param : {"max_iterations"}, val : {-20, 0, 20}]
  \cup [param : {"num_random_starts"}, val : {-1, 1}]
  \cup [param : {"optimizer"}, val : {"COBYLA"}]
  \cup [param : {"ansatz_type"}, val : {"HardwareEfficient"}]

\* ConfigurationSpace.generate_neighbors(config, num_neighbors)
GenerateNeighbors ==
    \E config \in NeighborInputs, k \in NeighborCounts :
      \E draws \in [1..k -> NeighborDraws] :
        /\ call' = [NoCall EXCEPT !.config = Some(config), !.num_neighbors = k]
        /\ ret' = [Result("generate_neighbors", "none") EXCEPT
                     !.value = generate_neighbors(config, draws)]
        /\ UNCHANGED <<calibrator, bench_dir, twin, shell, state_file, j_log>>

NextNeighbors == GenerateNeighbors

SpecNeighbors == InitPure /\ [][NextNeighbors]_vars

(***************************************************************************)
(* field.py driven directly: update and update_submodules                  *)
(***************************************************************************)
\* how many calls the field is driven through
MaxFieldCalls == 3

\* the triplets of the calls
FieldPerfs == {PerformanceTriplet(50, 50, 50), PerformanceTriplet(90, 60, 20)}

\* the injection that cancels alpha*state + sum(beta_i*submodule_i)
Cancelling(f) ==
    [i \in 1..f.dimension |->
        0 - ((95 * f.field_state[i]
                + 10 * SumSeq([k \in 1..NumSubmodules |-> f.submodule_states[k][i]]))
             \div 50)]

\* the injections of the calls: encoded triplets, the opposite of one, the
\* cancelling one, and one of the wrong dimension
FieldInjections(f) ==
    {encode(p) : p \in FieldPerfs}
    \cup {Negated(encode(PerformanceTriplet(50, 50, 50))), Cancelling(f), <<0>>}

\* MandorlaField.update(injection); ret.step numbers the calls
FieldUpdate ==
    \E injection \in FieldInjections(field) :
        /\ ret.step < MaxFieldCalls
        /\ call' = [NoCall EXCEPT !.injection = Some(injection)]
        /\ IF update_raises(field, injection)
           THEN /\ ret' = [Result("field_update", "ValueError") EXCEPT
                             !.step = ret.step + 1]
                /\ UNCHANGED field
           ELSE /\ ret' = [Result("field_update", "none") EXCEPT
                             !.step = ret.step + 1]
                /\ field' = field_update(field, injection)
        /\ UNCHANGED <<bench_dir, twin, shell, current_config, current_performance, step_count,
                       cri, config_space, history, state_file, j_log>>

\* MandorlaField.update_submodules(performance, algorithm)
FieldUpdateSubmodules ==
    \E performance \in FieldPerfs, algorithm \in {"VQE", "QAOA"} :
        /\ ret.step < MaxFieldCalls
        /\ call' = [NoCall EXCEPT !.candidate = performance]
        /\ ret' = [Result("update_submodules", "none") EXCEPT !.step = ret.step + 1]
        /\ field' = update_submodules(field, performance, algorithm)
        /\ UNCHANGED <<bench_dir, twin, shell, current_config, current_performance, step_count,
                       cri, config_space, history, state_file, j_log>>

NextField == FieldUpdate \/ FieldUpdateSubmodules

SpecField == InitPure /\ [][NextField]_vars

(***************************************************************************)
(* benchmark.py: validate_benchmark, driven directly                       *)
(*                                                                         *)
(* A JSON value is [kind, v] with kind one of "str", "int", "float",       *)
(* "dict", "list", "null"; a number's v is in the fixed-point unit of the  *)
(* field it sits in. A dict is a record of its possible keys, each None    *)
(* when the key is absent and Some(value) when it is present.              *)
(***************************************************************************)
JsonStr(s) == [kind |-> "str", v |-> s]
JsonInt(n) == [kind |-> "int", v |-> n]
JsonFloat(n) == [kind |-> "float", v |-> n]
JsonDict(d) == [kind |-> "dict", v |-> d]
JsonNull == [kind |-> "null", v |-> 0]

\* key in d
Has(d, key) == d[key] # None

\* isinstance(x, (int, float))
is_number(x) == x.kind \in {"int", "float"}

\* [error] when the rule is violated, [] otherwise
ErrorIf(violated, rule, field_name) == IF violated THEN <<(<<rule, field_name>>)>> ELSE <<>>

required_fields == <<"system", "config_id", "timestamp", "config", "metrics">>
required_metrics == <<"psi", "rho", "omega">>

\* the loop over required_fields
RECURSIVE missing_errors(_, _)
missing_errors(record, i) ==
    IF i > Len(required_fields) THEN <<>>
    ELSE ErrorIf(~Has(record, required_fields[i]), "missing required field",
                 required_fields[i])
         \o missing_errors(record, i + 1)

\* not isinstance(x, str) or not x
not_nonempty_string(x) == IF x.kind = "str" THEN x.v = "" ELSE TRUE

\* the type rules of system, config_id, timestamp and config
type_errors(record) ==
    LET config == The(record.config)
    IN  ErrorIf(not_nonempty_string(The(record.system)),
                "must be non-empty string", "system")
        \o ErrorIf(not_nonempty_string(The(record.config_id)),
                   "must be non-empty string", "config_id")
        \o ErrorIf(The(record.timestamp).kind \notin {"str", "int", "float"},
                   "must be string or number", "timestamp")
        \o (IF config.kind # "dict"
            THEN <<(<<"must be object/dict", "config">>)>>
            ELSE ErrorIf(~Has(config.v, "algorithm"),
                         "must contain 'algorithm' field", "config"))

\* the rules of one metric
metric_errors(metrics, metric) ==
    IF ~Has(metrics, metric)
    THEN <<(<<"missing required field", "metrics." \o metric>>)>>
    ELSE LET value == The(metrics[metric])
         IN  IF ~is_number(value)
             THEN <<(<<"must be number", "metrics." \o metric>>)>>
             ELSE ErrorIf(~(0 <= value.v /\ value.v <= One),
                          "must be in range [0, 1]", "metrics." \o metric)

\* the rules of metrics
metrics_errors(record) ==
    LET metrics == The(record.metrics)
    IN  IF metrics.kind # "dict"
        THEN <<(<<"must be object/dict", "metrics">>)>>
        ELSE metric_errors(metrics.v, required_metrics[1])
             \o metric_errors(metrics.v, required_metrics[2])
             \o metric_errors(metrics.v, required_metrics[3])

\* the rules of the optional fields
optional_errors(record) ==
    ErrorIf(Has(record, "raw_results") /\ The(record.raw_results).kind # "dict",
            "must be object/dict if present", "raw_results")
    \o ErrorIf(Has(record, "aux") /\ The(record.aux).kind # "dict",
               "must be object/dict if present", "aux")

\* `name in config` raises TypeError when config is not a container
membership_raises(config) == config.kind \in {"int", "float", "null"}

\* `name in config`: a key of a dict; the strings and lists of the model
\* hold no parameter name
config_has(config, name) == config.kind = "dict" /\ Has(config.v, name)

\* the rules of the config parameters that are present
parameter_errors(config) ==
    (IF config_has(config, "ansatz_depth")
     THEN LET depth == The(config.v.ansatz_depth)
          IN  ErrorIf(depth.kind # "int" \/ ~(1 <= depth.v /\ depth.v <= 10),
                      "must be integer in [1, 10]", "config.ansatz_depth")
     ELSE <<>>)
    \o (IF config_has(config, "learning_rate")
        THEN LET lr == The(config.v.learning_rate)
             IN  ErrorIf(~is_number(lr) \/ ~(0 < lr.v /\ lr.v <= 10000),
                         "must be in (0, 1]", "config.learning_rate")
        ELSE <<>>)
    \o (IF config_has(config, "max_iterations")
        THEN LET max_iter == The(config.v.max_iterations)
             IN  ErrorIf(max_iter.kind # "int" \/ max_iter.v < 1,
                         "must be positive integer", "config.max_iterations")
        ELSE <<>>)

\* `if errors and strict: raise` after the loop over the required fields
stops_at_missing_fields(record) == missing_errors(record, 1) # <<>>

\* validate_benchmark(record, strict=True): what it raises, "none" when it
\* returns True, and the errors the exception lists
validate_benchmark(record) ==
    IF stops_at_missing_fields(record)
    THEN [raises |-> "BenchmarkValidationError", errors |-> missing_errors(record, 1)]
    ELSE IF membership_raises(The(record.config))
    THEN [raises |-> "TypeError", errors |-> <<>>]
    ELSE LET errors == type_errors(record) \o metrics_errors(record)
                       \o optional_errors(record)
                       \o parameter_errors(The(record.config))
         IN  IF errors # <<>>
             THEN [raises |-> "BenchmarkValidationError", errors |-> errors]
             ELSE [raises |-> "none", errors |-> <<>>]

\* the dicts of the calls
Metrics(psi, rho, omega) == JsonDict([psi |-> psi, rho |-> rho, omega |-> omega])
Config(algorithm, depth, lr, max_iter) ==
    JsonDict([algorithm |-> algorithm, ansatz_depth |-> depth, learning_rate |-> lr,
              max_iterations |-> max_iter])
EmptyDict == JsonDict([none |-> None])

\* a record that passes
WellFormedRecord ==
    [system |-> Some(JsonStr("VQE")), config_id |-> Some(JsonStr("run-1")),
     timestamp |-> Some(JsonFloat(17)),
     config |-> Some(Config(Some(JsonStr("VQE")), Some(JsonInt(3)), Some(JsonFloat(100)),
                            Some(JsonInt(100)))),
     metrics |-> Some(Metrics(Some(JsonFloat(90)), Some(JsonFloat(80)), Some(JsonInt(0)))),
     raw_results |-> None, aux |-> None]

\* records with each field absent, well-formed, or breaking one of its rules
RecordShapes ==
    [system : {None, Some(JsonStr("VQE")), Some(JsonStr("")), Some(JsonInt(5))},
     config_id : {None, Some(JsonStr("run-1"))},
     timestamp : {Some(JsonFloat(17)), Some(JsonNull)},
     config : {None, Some(JsonStr("VQE")), Some(JsonInt(3)),
               Some(Config(Some(JsonStr("VQE")), None, None, None)),
               Some(Config(None, None, None, None)),
               Some(Config(Some(JsonStr("VQE")), Some(JsonInt(3)), Some(JsonFloat(100)),
                           Some(JsonInt(100)))),
               Some(Config(Some(JsonStr("VQE")), Some(JsonInt(11)), None, None)),
               Some(Config(Some(JsonStr("VQE")), Some(JsonFloat(3)), None, None)),
               Some(Config(Some(JsonStr("VQE")), None, Some(JsonFloat(0)), None)),
               Some(Config(Some(JsonStr("VQE")), None, None, Some(JsonInt(0))))},
     metrics : {None, Some(JsonStr("good")),
                Some(Metrics(Some(JsonFloat(90)), Some(JsonFloat(80)), Some(JsonInt(0)))),
                Some(Metrics(Some(JsonFloat(150)), Some(JsonFloat(80)), Some(JsonFloat(70)))),
                Some(Metrics(Some(JsonFloat(90)), None, Some(JsonFloat(70)))),
                Some(Metrics(Some(JsonStr("high")), Some(JsonFloat(80)),
                             Some(JsonFloat(-10))))},
     raw_results : {None, Some(EmptyDict), Some(JsonStr("raw"))},
     aux : {None, Some(JsonStr("aux"))}]

\* the records of the calls: those that differ from the well-formed one in
\* at most MaxDeviations fields
MaxDeviations == 2
BenchmarkRecords ==
    {record \in RecordShapes :
        Cardinality({f \in DOMAIN record : record[f] # WellFormedRecord[f]})
            <= MaxDeviations}

\* validate_benchmark(record) on a chosen record
ValidateBenchmark ==
    \E record \in BenchmarkRecords :
        LET outcome == validate_benchmark(record)
        IN  /\ call' = [NoCall EXCEPT !.record = Some(record)]
            /\ ret' = [Result("validate_benchmark", outcome.raises) EXCEPT
                         !.value = outcome.errors]
            /\ UNCHANGED <<calibrator, bench_dir, twin, shell, state_file, j_log>>

NextValidate == ValidateBenchmark

SpecValidate == InitPure /\ [][NextValidate]_vars

(***************************************************************************)
(* performance.py driven directly: compute_performance_triplet             *)
(***************************************************************************)
\* the payloads of the calls: estimates inside [0, 1], estimates outside it,
\* and a payload the extractors raise on
TripletPayloads == {Payload(90, 80, 70), Payload(130, -20, 250), MalformedPayload}

\* the benchmarks of the calls: any of three families, one of them without an
\* extractor
TripletFamilies == {"vqe", "qaoa", "quantum_walk"}
TripletBenchmarks ==
    UNION {[present -> TripletPayloads] : present \in SUBSET TripletFamilies}

\* the weights of the calls: None for the default, or a dict
TripletWeights ==
    {None,
     Some([name \in {"vqe", "qaoa"} |-> 0]),
     Some([name \in {"vqe", "qaoa"} |-> IF name = "vqe" THEN -5 ELSE 10]),
     Some([name \in {"vqe"} |-> 30]),
     Some([name \in TripletFamilies |-> IF name = "quantum_walk" THEN 20 ELSE 0])}

\* compute_performance_triplet(benchmarks, algorithm_weights) on chosen
\* arguments
ComputePerformanceTriplet ==
    \E benchmarks \in TripletBenchmarks, given \in TripletWeights :
        LET weights == IF given = None THEN default_weights ELSE The(given)
        IN  /\ call' = [NoCall EXCEPT !.benchmarks = Some(benchmarks), !.weights = given]
            /\ ret' = IF compute_raises_with(benchmarks, weights)
                      THEN Result("compute_performance_triplet", "TypeError")
                      ELSE [Result("compute_performance_triplet", "none") EXCEPT
                              !.value = Some(compute_performance_triplet_with(benchmarks,
                                                                              weights))]
            /\ UNCHANGED <<calibrator, bench_dir, twin, shell, state_file, j_log>>

NextTriplet == ComputePerformanceTriplet

SpecTriplet == InitPure /\ [][NextTriplet]_vars

(***************************************************************************)
(* operators.py driven directly: the kicks, iterate and is_contractive     *)
(***************************************************************************)
\* the draws of the calls: one that raises each score, one that ties
KickDraws ==
    {[param |-> "ansatz_depth", val |-> -1],
     [param |-> "learning_rate", val |-> 80],
     [param |-> "max_iterations", val |-> -20],
     [param |-> "num_random_starts", val |-> 1],
     [param |-> "optimizer", val |-> "Adam"],
     [param |-> "ansatz_type", val |-> "Metatron"]}

\* the configurations and performances of the calls: one where two
\* different neighbors score the same, the default at the top of the scale,
\* and a seed at the edge of the space
KickInputs ==
    {<<Configuration("VQE", "EfficientSU2", 3, "COBYLA", 240, 100, 2, "tie"),
       PerformanceTriplet(50, 50, 50)>>,
     <<default_configuration, PerformanceTriplet(One, One, One)>>,
     <<Configuration("QAOA", "EfficientSU2", 10, "COBYLA", 10000, 1, 5, "seed"),
       PerformanceTriplet(90, 60, 20)>>}

\* the draws of one call: up to NumNeighbors of them, none for an empty
\* neighbor list
KickDrawSeqs == UNION {[1..k -> KickDraws] : k \in 0..NumNeighbors}

\* UpdateKick.apply and StabilizationKick.apply on chosen arguments
KickApply ==
    \E input \in KickInputs, draws \in KickDrawSeqs, kick \in {"update_kick", "stabilization_kick"} :
        /\ call' = [NoCall EXCEPT !.config = Some(input[1]), !.current = input[2],
                                  !.draws = draws]
        /\ ret' = [Result(kick, "none") EXCEPT
                     !.value = Some(IF kick = "update_kick"
                                    THEN UpdateKick_apply(input[1], input[2], draws)
                                    ELSE StabilizationKick_apply(input[1], input[2], draws))]
        /\ UNCHANGED <<calibrator, bench_dir, twin, shell, state_file, j_log>>

\* iterate: the draws of one application (the update kick's, then the
\* stabilization kick's, one neighbor each)
IterateDraws ==
    {<<(<<[param |-> "num_random_starts", val |-> 1]>>),
       (<<[param |-> "ansatz_depth", val |-> -1]>>)>>,
     <<(<<[param |-> "learning_rate", val |-> 80]>>),
       (<<[param |-> "max_iterations", val |-> -20]>>)>>,
     <<(<<[param |-> "ansatz_depth", val |-> -1]>>),
       (<<[param |-> "num_random_starts", val |-> 1]>>)>>,
     <<(<<[param |-> "optimizer", val |-> "Adam"]>>),
       (<<[param |-> "learning_rate", val |-> 80]>>)>>,
     <<(<<[param |-> "ansatz_depth", val |-> -1]>>),
       (<<[param |-> "learning_rate", val |-> 80]>>)>>}

\* num_iterations of the calls: 0..MaxIterations
MaxIterations == 2

\* DoubleKickOperator.iterate on chosen arguments
Iterate ==
    \E input \in KickInputs, n \in 0..MaxIterations :
      \E schedule \in [1..n -> IterateDraws] :
        /\ call' = [NoCall EXCEPT !.config = Some(input[1]), !.current = input[2],
                                  !.draws = schedule, !.num_iterations = n]
        /\ ret' = [Result("iterate", "none") EXCEPT
                     !.value = Some(iterate(input[1], input[2], schedule))]
        /\ UNCHANGED <<calibrator, bench_dir, twin, shell, state_file, j_log>>

\* distance sequences of the calls: up to MaxDistances distances
MaxDistances == 3
DistanceSeqs == UNION {[1..k -> {0, 5, 300}] : k \in 0..MaxDistances}

\* DoubleKickOperator.is_contractive on a chosen sequence
IsContractive ==
    \E distances \in DistanceSeqs :
        /\ call' = [NoCall EXCEPT !.distances = distances]
        /\ ret' = [Result("is_contractive", "none") EXCEPT
                     !.value = Some(is_contractive(distances))]
        /\ UNCHANGED <<calibrator, bench_dir, twin, shell, state_file, j_log>>

NextKick == KickApply \/ Iterate \/ IsContractive

SpecKick == InitPure /\ [][NextKick]_vars

(***************************************************************************)
(* core.py: the AutoTuner (enabled)                                        *)
(***************************************************************************)
\* SeraphicCalibrator.load_state on the calibrator as it is: the step count
\* and the field are assigned, the configuration and the performance when
\* the file has them; the CRI, the configuration space and the history stay
load_state ==
    LET state == The(state_file)
    IN  /\ step_count' = state.step_count
        /\ current_config' =
              IF state.current_config # None
              THEN Some(config_from_dict(The(state.current_config)))
              ELSE current_config
        /\ current_performance' =
              IF state.current_performance # None
              THEN Some(LET d == The(state.current_performance)
                        IN  PerformanceTriplet(d.psi, d.rho, d.omega))
              ELSE current_performance
        /\ field' = field_from_dict(state.field)
        /\ UNCHANGED <<cri, config_space, history>>

\* SeraphicCalibrator(config): the calibrator as constructed
fresh_calibrator ==
    /\ current_config' = None
    /\ current_performance' = None
    /\ step_count' = 0
    /\ field' = MandorlaField(Dim)
    /\ cri' = ResonanceImpulse
    /\ config_space' = [current |-> None, history |-> <<>>]
    /\ history' = <<>>
    /\ j_log' = <<>>

\* AutoTuner.initialize(initial_config)
TunerInitialize(seed) ==
    /\ IF state_file # None
       THEN /\ load_state
            /\ initialized' = TRUE
            /\ tuner_ret' = [Result("initialize", "none") EXCEPT !.value = current_config']
            /\ UNCHANGED <<state_file, j_log, call, ret>>
       ELSE /\ initialize(seed, "none")
            /\ IF ret'.error = "none"
               THEN /\ initialized' = TRUE
                    /\ state_file' = Some(saved_state')
                    /\ tuner_ret' = [Result("initialize", "none") EXCEPT
                                       !.value = current_config']
               ELSE /\ tuner_ret' = Result("initialize", ret'.error)
                    /\ UNCHANGED <<initialized, state_file>>
    /\ UNCHANGED <<bench_dir, twin, history_file, cli>>

\* delta_phi of propose_new_config, in thousandths: current_perf is read
\* from the calibrator after the step, estimated_perf from the step result
delta_phi(current_perf, estimated_perf) ==
    perf_norm(estimated_perf) - perf_norm(current_perf)

\* AutoTuner.propose_new_config(), the kicks drawing from D
TunerPropose(D, limit) ==
    /\ IF ~initialized
       THEN /\ tuner_ret' = Result("propose_new_config", "RuntimeError")
            /\ UNCHANGED <<calibrator, j_log, ret, state_file, history_file>>
       ELSE /\ calibration_step("none", D, limit)
            /\ IF ret'.error = "none"
               THEN LET current_perf == The(current_performance')
                        estimated_perf_dict == perf_to_dict(The(current_performance'))
                        estimated_perf ==
                            PerformanceTriplet(estimated_perf_dict.psi,
                                               estimated_perf_dict.rho,
                                               estimated_perf_dict.omega)
                        proposal ==
                            [config |-> The(current_config'),
                             current_performance |-> current_perf,
                             estimated_performance |-> estimated_perf,
                             por_accepted |-> ret'.accepted,
                             cri_triggered |-> ret'.cri_triggered,
                             delta_phi |-> delta_phi(current_perf, estimated_perf),
                             step |-> ret'.step,
                             j_t |-> ret'.j_t]
                    IN  /\ tuner_ret' = [Result("propose_new_config", "none") EXCEPT
                                           !.value = Some(proposal)]
                        /\ state_file' = Some(saved_state')
                        /\ history_file' = Some(history')
               ELSE /\ tuner_ret' = Result("propose_new_config", ret'.error)
                    /\ UNCHANGED <<state_file, history_file>>
    /\ UNCHANGED <<bench_dir, twin, initialized, cli, call>>

\* (a variant of reset() below that leaves the state file in place)
TunerReset_keeping_state_file ==
    /\ initialized' = FALSE
    /\ fresh_calibrator
    /\ tuner_ret' = Result("reset", "none")
    /\ UNCHANGED <<bench_dir, twin, state_file, history_file, cli, call, ret>>

\* AutoTuner.reset()
TunerReset ==
    /\ state_file' = None
    /\ initialized' = FALSE
    /\ fresh_calibrator
    /\ tuner_ret' = Result("reset", "none")
    /\ UNCHANGED <<bench_dir, twin, history_file, cli, call, ret>>

NextTuner ==
    \/ \E seed \in Seeds : TunerInitialize(seed)
    \/ TunerPropose(RunDraws, MaxSteps)
    \/ TunerReset

SpecTuner == Init /\ [][NextTuner]_vars

(***************************************************************************)
(* cli.py: the step command, one process per invocation, the state file    *)
(* and the history file shared by all of them                              *)
(***************************************************************************)
\* the largest --num-steps of an invocation
MaxCliSteps == 2

\* cmd_step up to run_calibration: the calibrator is constructed, and loaded
\* from the state file when there is one, initialized when there is none
\* (the calibrator of the model is then still the one Init constructed). An
\* error in initialize ends the process.
CmdStepBegin(num_steps) ==
    /\ cli.pc = "idle"
    /\ IF state_file # None
       THEN /\ The(state_file).step_count + num_steps <= MaxRunSteps
            /\ construct_and_load
            /\ cli' = [pc |-> "run", remaining |-> num_steps]
            /\ UNCHANGED call
       ELSE /\ initialize(None, "none")
            /\ cli' = IF ret'.error = "none"
                      THEN [pc |-> "run", remaining |-> num_steps] ELSE Idle
    /\ UNCHANGED <<bench_dir, twin, state_file, history_file, initialized, tuner_ret>>

\* cmd_step from run_calibration on: one pass of its loop, and after the
\* last pass save_state() and save_history(), which ends the process. An
\* error in a step ends it before anything is saved.
CmdStepRun ==
    /\ cli.pc = "run"
    /\ calibration_step("none", RunDraws, MaxRunSteps)
    /\ IF ret'.error # "none"
       THEN /\ cli' = Idle
            /\ UNCHANGED <<state_file, history_file>>
       ELSE IF cli.remaining > 1
       THEN /\ cli' = [cli EXCEPT !.remaining = @ - 1]
            /\ UNCHANGED <<state_file, history_file>>
       ELSE /\ cli' = Idle
            /\ state_file' = Some(saved_state')
            /\ history_file' = Some(history')
    /\ UNCHANGED <<bench_dir, twin, initialized, tuner_ret, call>>

NextCli ==
    \/ \E num_steps \in 1..MaxCliSteps : CmdStepBegin(num_steps)
    \/ CmdStepRun

SpecCli == Init /\ [][NextCli]_vars

(***************************************************************************)
(* Two calibrators, one after the other, on the same seed, benchmark       *)
(* directory and draws                                                     *)
(***************************************************************************)
\* the seeds of the two runs
PairSeeds == {None} \cup {Some(c) : c \in ValidSeeds}

\* SeraphicCalibrator.__init__ builds its own MandorlaField
\* (a variant of the constructor below that hands out the field of the
\* calibrator built before)
shared_field == field
fresh_field == MandorlaField(Dim)

\* two calibrators are to run: the seed both get, and the draw every kick of
\* step n makes in both
InitPair ==
    /\ bench_dir \in BenchDirs
    /\ current_config = None
    /\ current_performance = None
    /\ step_count = 0
    /\ field = MandorlaField(Dim)
    /\ cri = ResonanceImpulse
    /\ config_space = [current |-> None, history |-> <<>>]
    /\ history = <<>>
    /\ state_file = None
    /\ call = NoCall
    /\ ret = Result("init", "none")
    /\ j_log = <<>>
    /\ twin \in [seed : PairSeeds, schedule : [1..MaxRunSteps -> RunDraws],
                 first : {None}]
    /\ history_file = None
    /\ initialized = FALSE
    /\ tuner_ret = Result("init", "none")
    /\ cli = Idle

\* calibration_step of the calibrator that is running, with the draw the
\* schedule has for this step; the second calibrator runs as many steps as
\* the first did
PairStep ==
    /\ twin.first # None => step_count < The(twin.first).step_count
    /\ step_count < MaxRunSteps
    /\ CalibrationStep("none", {twin.schedule[step_count + 1]}, MaxRunSteps)

\* the first calibrator is done, its results are kept, and a second one is
\* constructed
SecondCalibrator ==
    /\ twin.first = None
    /\ step_count >= 1
    /\ twin' = [twin EXCEPT !.first =
                  Some([step_count |-> step_count, history |-> history,
                        current_config |-> current_config,
                        current_performance |-> current_performance,
                        field |-> field])]
    /\ current_config' = None
    /\ current_performance' = None
    /\ step_count' = 0
    /\ field' = fresh_field
    /\ cri' = ResonanceImpulse
    /\ config_space' = [current |-> None, history |-> <<>>]
    /\ history' = <<>>
    /\ call' = NoCall
    /\ ret' = Result("init", "none")
    /\ j_log' = <<>>
    /\ UNCHANGED <<bench_dir, state_file, shell>>

NextPair ==
    \/ Initialize(twin.seed, "none")
    \/ PairStep
    \/ SecondCalibrator

SpecPair == InitPair /\ [][NextPair]_vars

(***************************************************************************)
(* Properties                                                              *)
(***************************************************************************)
\* C1: whenever the calibrator has a current configuration it satisfies
\* is_valid, and so does every candidate a step's double kick produced,
\* whatever seeds, faults, acceptances, rejections and impulses came before.
C1_CurrentAndCandidateValid ==
    /\ current_config # None => is_valid(The(current_config))
    /\ ret.candidate_config # None => is_valid(The(ret.candidate_config))
    /\ config_space.current # None => is_valid(The(config_space.current))

\* a completed step from a non-default seed that accepted its candidate and
\* then switched regime
C1_Witness ==
    /\ ret.op = "calibration_step" /\ ret.error = "none"
    /\ ret.accepted /\ ret.cri_triggered
    /\ config_space.history[1] \in ValidSeeds
    /\ is_valid(The(current_config))

\* C2: a calibration_step that raises leaves step_count, the field, the CRI,
\* the current configuration and performance, the configuration space and
\* the step history as they were before the call.
C2_ErrorLeavesStateUnchanged ==
    [][(ret'.op = "calibration_step" /\ ret'.error # "none")
          => UNCHANGED calibrator]_vars

\* C3: from the default configuration and an empty benchmark directory, the
\* first completed step leaves current_performance at (0.5, 0.5, 0.5) and
\* does not accept a candidate that differs from the current configuration.
C3_NeutralAfterOneStep ==
    (/\ bench_dir = EmptyDir
     /\ config_space.history # <<>>
     /\ config_space.history[1] = default_configuration
     /\ Len(history) = 1)
    => /\ history[1].performance = perf_to_dict(PerformanceTriplet(50, 50, 50))
       /\ (ret.op = "calibration_step"
           /\ ret.candidate_config # Some(default_configuration))
          => ~ret.accepted

\* C4: after load_state into a fresh calibrator, step_count, the current
\* configuration and performance, the field, and the CRI's counter and J
\* history are those of the state file.
C4_StateFileRoundTrips ==
    (ret.op = "load_state")
    => LET state == The(state_file)
       IN  /\ step_count = state.step_count
           /\ (state.current_config # None
               => current_config = Some(config_from_dict(The(state.current_config))))
           /\ (state.current_performance # None
               => perf_to_dict(The(current_performance))
                     = The(state.current_performance))
           /\ field_to_dict(field) = state.field
           /\ cri.steps_since_last_impulse = state.cri_diagnostics.steps_since_impulse
           /\ cri.history = state.cri_diagnostics.j_t_history

\* the steps of the run that reported cri_triggered
triggered_steps == {i \in 1..Len(history) : history[i].cri_triggered}

\* C5: in a run, a step reports cri_triggered only when at least min_steps
\* CRI updates (initialize makes one, every completed step one) came after
\* the previous impulse, so two such steps are at least min_steps apart.
C5_ImpulsesMinStepsApart ==
    \A j \in triggered_steps :
        LET earlier == {i \in triggered_steps : i < j}
        IN  IF earlier = {}
            THEN j + 1 >= ResonanceImpulseConfig.min_steps
            ELSE \A i \in earlier : j - i >= ResonanceImpulseConfig.min_steps

\* two impulses exactly min_steps apart
C5_Witness ==
    \E i \in triggered_steps :
        /\ i + MinSteps \in triggered_steps
        /\ \A k \in triggered_steps : ~(i < k /\ k < i + MinSteps)

C7_DetailedAgreesWithCheck ==
    /\ [](ret.op = "por"
          => LET detailed == The(ret.por_detailed)
             IN  /\ detailed.overall = ret.por_result
                 /\ detailed.overall =
                       (/\ detailed.quality.pass
                        /\ detailed.stability.pass
                        /\ detailed.efficiency.pass
                        /\ detailed.field_resonance.pass))
    /\ [][ret'.op = "por" => UNCHANGED calibrator]_vars

\* the three performance criteria pass and the resonance alone fails
C7_Witness ==
    /\ ret.op = "por"
    /\ call.field # None /\ call.injection # None
    /\ The(ret.por_detailed).quality.pass
    /\ The(ret.por_detailed).stability.pass
    /\ The(ret.por_detailed).efficiency.pass
    /\ ~The(ret.por_detailed).field_resonance.pass
    /\ ~ret.por_result

\* C8: the J history never holds more than 2*window_size entries, they are
\* the latest values given to update in arrival order, and update returns
\* psi*rho*omega of its triplet, which is the last entry.
C8_HistoryBounded ==
    LET h == cri.history
        n == Len(h)
        m == Len(j_log)
    IN  /\ n <= 2 * WindowSize
        /\ n = IF m <= 2 * WindowSize THEN m ELSE 2 * WindowSize
        /\ \A k \in 1..n : h[k] = j_log[m - n + k]
        /\ (ret.op = "cri_update")
           => /\ ret.j_t = call.candidate.psi * call.candidate.rho
                              * call.candidate.omega
              /\ n >= 1 /\ h[n] = ret.j_t

\* an update that pushed the oldest entry out
C8_Witness ==
    /\ ret.op = "cri_update"
    /\ Len(j_log) > 2 * WindowSize
    /\ j_log[1] # j_log[2]
    /\ cri.history[1] = j_log[Len(j_log) - 2 * WindowSize + 1]

\* the J values of the calls are multiples of 1/8
JUnit == 50 * 50 * 50

\* C9: is_stagnating is false below window_size entries; from there on it is
\* true exactly when the variance of the last window_size entries is at most
\* the threshold and, with 2*window_size entries, the mean of the last window
\* is not above the mean of the window before by more than the threshold.
\* (In units of 1/8 the threshold 0.01 is 0.64 for the variance and 0.08 for
\* the means.)
C9_StagnatingSemantics ==
    LET h == cri.history
        n == Len(h)
        w == WindowSize
        y == [i \in 1..n |-> h[i] \div JUnit]
        threshold == ResonanceImpulseConfig.stagnation_threshold
    IN  /\ \A i \in 1..n : h[i] % JUnit = 0
        /\ IF n < w THEN ~is_stagnating(h, threshold)
           ELSE LET sum_recent == SumSeq([i \in 1..w |-> y[n - w + i]])
                    squares == SumSeq([i \in 1..w |-> y[n - w + i] * y[n - w + i]])
                    low_variance ==
                        25 * (w * squares - sum_recent * sum_recent) <= 16 * w * w
                    improving ==
                        25 * (sum_recent - SumSeq([i \in 1..w |-> y[n - 2 * w + i]]))
                           > 2 * w
                IN  is_stagnating(h, threshold)
                       = (low_variance /\ (n < 2 * w \/ ~improving))

\* a flat recent window above a flat older one: not stagnating
C9_Witness ==
    /\ Len(cri.history) = 2 * WindowSize
    /\ \A i \in 1..WindowSize :
          /\ cri.history[i] = 0
          /\ cri.history[WindowSize + i] = 2 * JUnit
    /\ ~is_stagnating(cri.history, ResonanceImpulseConfig.stagnation_threshold)

\* C10: after apply_impulse the counter is 0 and the configuration returned
\* is valid: the default one, or the input with its regime remapped; for a
\* valid input its algorithm, ansatz type and optimizer all differ from the
\* input's.
C10_ImpulseAlternativeRegime ==
    (ret.op = "apply_impulse")
    => LET input == The(call.config)
           new_config == The(ret.candidate_config)
       IN  /\ cri.steps_since_last_impulse = 0
           /\ is_valid(new_config)
           /\ \/ new_config = default_configuration
              \/ /\ new_config.max_iterations = input.max_iterations
                 /\ new_config.num_random_starts = input.num_random_starts
                 /\ new_config.name = input.name
           /\ is_valid(input)
              => /\ new_config.algorithm # input.algorithm
                 /\ new_config.ansatz_type # input.ansatz_type
                 /\ new_config.optimizer # input.optimizer

\* an impulse after some updates, on a valid input with GradientDescent
C10_Witness ==
    /\ ret.op = "apply_impulse"
    /\ j_log # <<>>
    /\ is_valid(The(call.config))
    /\ The(call.config).optimizer = "GradientDescent"
    /\ The(ret.candidate_config).optimizer = "Adam"
    /\ cri.steps_since_last_impulse = 0

\* C11: on a calibrator whose initialize has not completed, calibration_step
\* and get_best_configuration raise the not-initialized error and leave
\* step_count, the field, the CRI and the step history as they were.
C11_UninitializedOperationsFail ==
    [][(/\ current_performance = None
        /\ ret'.op \in {"calibration_step", "get_best_configuration"})
          => /\ ret'.error = "RuntimeError"
             /\ UNCHANGED <<step_count, field, cri, history>>]_vars

\* C12: initialize with a seed that fails is_valid raises ValueError and
\* leaves the calibrator as constructed: no current configuration, the space,
\* the field and the CRI untouched; set_current on an invalid configuration
\* raises and leaves the space's current and history as they were.
C12_InvalidSeedRejected ==
    /\ [][(/\ ret'.op = "initialize"
           /\ call'.config # None
           /\ ~is_valid(The(call'.config)))
             => /\ ret'.error = "ValueError"
                /\ current_config' = None
                /\ UNCHANGED calibrator]_vars
    /\ [][(/\ ret'.op = "set_current"
           /\ ~is_valid(The(call'.config)))
             => /\ ret'.error = "ValueError"
                /\ UNCHANGED config_space]_vars

\* set_current refused an invalid configuration on a space that holds one
C12_Witness ==
    /\ ret.op = "set_current"
    /\ ret.error = "ValueError"
    /\ ~is_valid(The(call.config))
    /\ config_space.current # None
    /\ current_config = None

\* C13: generate_neighbors(c, k) returns at most k configurations, every one
\* of them valid, for valid and invalid c.
C13_NeighborsValid ==
    (ret.op = "generate_neighbors")
    => /\ Len(ret.value) <= call.num_neighbors
       /\ \A i \in 1..Len(ret.value) :
             LET n == ret.value[i]
             IN  /\ n.algorithm \in ALGORITHMS
                 /\ n.ansatz_type \in ANSATZ_TYPES
                 /\ n.optimizer \in OPTIMIZERS
                 /\ 1 <= n.ansatz_depth /\ n.ansatz_depth <= 10
                 /\ 0 < n.learning_rate /\ n.learning_rate <= 10000
                 /\ n.max_iterations >= 1

\* an invalid configuration, one of whose two neighbours was discarded
C13_Witness ==
    /\ ret.op = "generate_neighbors"
    /\ call.num_neighbors = 2
    /\ Len(ret.value) = 1
    /\ ~is_valid(The(call.config))

\* the fields generate_neighbors perturbs
MutableFields ==
    {"ansatz_depth", "learning_rate", "max_iterations", "num_random_starts",
     "optimizer", "ansatz_type"}

\* C14: a neighbour differs from c in at most one field, one of the six
\* perturbed ones, and the value of that field is inside its bound.
C14_NeighborsOneField ==
    (ret.op = "generate_neighbors")
    => \A i \in 1..Len(ret.value) :
          LET c == The(call.config)
              n == ret.value[i]
              changed == {f \in DOMAIN c : n[f] # c[f]}
          IN  /\ DOMAIN n = DOMAIN c
              /\ Cardinality(changed) <= 1
              /\ changed \subseteq MutableFields
              /\ "ansatz_depth" \in changed
                    => 1 <= n.ansatz_depth /\ n.ansatz_depth <= 10
              /\ "learning_rate" \in changed
                    => 10 <= n.learning_rate /\ n.learning_rate <= 1000
              /\ "max_iterations" \in changed
                    => 10 <= n.max_iterations /\ n.max_iterations <= 500
              /\ "num_random_starts" \in changed
                    => 1 <= n.num_random_starts /\ n.num_random_starts <= 5
              /\ "optimizer" \in changed => n.optimizer \in OPTIMIZERS
              /\ "ansatz_type" \in changed => n.ansatz_type \in ANSATZ_TYPES

\* max_iterations below its clamp is raised to it, the rest kept
C14_Witness ==
    /\ ret.op = "generate_neighbors"
    /\ The(call.config).max_iterations = 1
    /\ \E i \in 1..Len(ret.value) :
          /\ ret.value[i].max_iterations = 10
          /\ ret.value[i].learning_rate = The(call.config).learning_rate

\* C15: after any number of updates, interleaved with update_submodules,
\* the L2 norm of field_state is 1 (here 1000, within the 2% the fixed-point
\* rounding can cost), or the state is exactly zero.
C15_FieldNormalized ==
    \/ field.field_state = Zeros
    \/ /\ Dot(field.field_state, field.field_state) >= 980 * 980
       /\ Dot(field.field_state, field.field_state) <= 1020 * 1020

\* the last of several updates, on a field whose submodules contribute
C15_Witness ==
    /\ ret.op = "field_update" /\ ret.error = "none"
    /\ ret.step = MaxFieldCalls
    /\ field.submodule_states[1] # Zeros
    /\ field.field_state # Zeros
    /\ field.field_state # field_update(MandorlaField(Dim), The(call.injection)).field_state

C17_HistoryAppendOnly ==
    /\ [](\A i, k \in 1..Len(history) : i < k => history[i].step < history[k].step)
    /\ [][/\ Len(history') >= Len(history)
          /\ SubSeq(history', 1, Len(history)) = history
          /\ (ret'.op = "calibration_step" /\ ret'.error = "none")
                => /\ Len(history') = Len(history) + 1
                   /\ LET record == history'[Len(history')]
                      IN  /\ record.step = step_count'
                          /\ record.config = config_to_dict(The(current_config'))
                          /\ record.performance = perf_to_dict(The(current_performance'))
                          /\ record.j_t = record.performance.psi * record.performance.rho
                                            * record.performance.omega
                          /\ record.por_accepted = ret'.accepted
                          /\ record.cri_triggered = ret'.cri_triggered
          /\ ~(ret'.op = "calibration_step" /\ ret'.error = "none")
                => history' = history]_vars

\* a run with four records behind it, an accepted candidate and a regime
\* switch among them
C17_Witness ==
    /\ Len(history) = MaxRunSteps
    /\ history[MaxRunSteps].step = MaxRunSteps
    /\ \E i \in 1..Len(history) : history[i].por_accepted
    /\ \E i \in 1..Len(history) : history[i].cri_triggered

\* the rules a benchmark record violates: a required field that is missing,
\* and every rule of the fields that are present
violated_rules(record) ==
    LET Present(field_name) == Has(record, field_name)
        Elements(errors) == {errors[i] : i \in DOMAIN errors}
        complete == [f \in {"system", "config_id", "timestamp", "config", "metrics"} |->
                        IF Present(f) THEN record[f]
                        ELSE IF f = "config" THEN Some(Config(Some(JsonStr("VQE")), None, None, None))
                        ELSE IF f = "metrics" THEN Some(Metrics(Some(JsonFloat(50)), Some(JsonFloat(50)), Some(JsonFloat(50))))
                        ELSE IF f = "timestamp" THEN Some(JsonFloat(0))
                        ELSE Some(JsonStr("present"))]
           @@ [f \in {"raw_results", "aux"} |-> record[f]]
    IN  Elements(missing_errors(record, 1)) \cup Elements(type_errors(complete))
        \cup Elements(metrics_errors(complete)) \cup Elements(optional_errors(complete))
        \cup Elements(parameter_errors(The(complete.config)))

\* C18: when validate_benchmark raises BenchmarkValidationError on a record,
\* the errors it lists are exactly the rules the record violates, also when
\* a required field is missing and a field that is present breaks a rule.
C18_ErrorListsEveryViolation ==
    (ret.op = "validate_benchmark" /\ ret.error = "BenchmarkValidationError")
        => {ret.value[i] : i \in DOMAIN ret.value} = violated_rules(The(call.record))

\* the weight a call gives a family: the dict's entry, 0.5 when the dict
\* has none, the default table when no dict is passed
weight_in_call(name) ==
    IF call.weights = None THEN algorithm_weights(name)
    ELSE IF name \in DOMAIN The(call.weights) THEN The(call.weights)[name]
    ELSE 5

\* the families of a call that have an extractor and a positive weight
contributed_in_call ==
    {name \in DOMAIN The(call.benchmarks) :
        name \in {"vqe", "qaoa", "cross_system"} /\ weight_in_call(name) > 0}

\* C19: compute_performance_triplet returns the neutral triplet
\* (0.5, 0.5, 0.5) when no family contributed an estimate (no benchmarks,
\* only families without an extractor, only non-positive weights); whatever
\* it returns has its three components in [0, 1]; and it returns, without
\* error, whenever the families that are present hold well-formed payloads,
\* whichever families are missing.
C19_NeutralOrClamped ==
    ret.op = "compute_performance_triplet"
        => /\ ret.error = "none"
                => /\ contributed_in_call = {}
                        => The(ret.value) = PerformanceTriplet(50, 50, 50)
                   /\ \A k \in {"psi", "rho", "omega"} :
                        0 <= The(ret.value)[k] /\ The(ret.value)[k] <= One
           /\ (\A name \in DOMAIN The(call.benchmarks) :
                    The(call.benchmarks)[name].kind = "ok")
                => ret.error = "none"

\* a call whose only contributing family reports estimates above 1 and
\* below 0, returned as (1, 0, 1)
C19_Witness ==
    /\ ret.op = "compute_performance_triplet"
    /\ ret.error = "none"
    /\ contributed_in_call = {"vqe"}
    /\ The(call.benchmarks)["vqe"] = Payload(130, -20, 250)
    /\ The(ret.value) = PerformanceTriplet(One, 0, One)

\* a call with benchmarks present and none contributing, by weights that
\* are not positive
C19_WitnessNeutral ==
    /\ ret.op = "compute_performance_triplet"
    /\ DOMAIN The(call.benchmarks) = {"vqe", "qaoa"}
    /\ call.weights # None
    /\ contributed_in_call = {}
    /\ The(ret.value) = PerformanceTriplet(50, 50, 50)

\* the run so far had one performance: every J the CRI was given is the
\* same, and every record holds the current triplet
constant_performance ==
    /\ current_performance # None
    /\ \A i \in DOMAIN j_log : j_log[i] = J(The(current_performance))
    /\ \A i \in DOMAIN history :
          history[i].performance = perf_to_dict(The(current_performance))

\* C20 as stated: with a field that is not zero, a step triggers the impulse
\* whenever, with its own CRI update, at least min_steps updates came after
\* the last impulse and J was the same over the last window. (A run whose
\* performance rose and then levelled off refutes it: is_stagnating answers
\* False while the recent window's mean exceeds the preceding window's by
\* more than the threshold.)
C20_TriggersWheneverWindowConstant ==
    [][(/\ ret'.op = "calibration_step"
        /\ ret'.error = "none"
        /\ field'.field_state # Zeros
        /\ cri.steps_since_last_impulse + 1 >= ResonanceImpulseConfig.min_steps
        /\ Len(j_log') >= WindowSize
        /\ \A i \in (Len(j_log') - WindowSize + 1)..Len(j_log') :
              j_log'[i] = j_log'[Len(j_log')])
          => ret'.cri_triggered]_vars

\* C20, amended: the escape mechanism. In a run whose field is not zero and
\* whose performance has been the same since initialize, a step triggers the impulse whenever, with its
\* own CRI update, at least min_steps updates came after the last impulse and
\* J was the same over a full window; so every min_steps consecutive steps of
\* such a run hold a regime switch.
C20_EscapeMechanism ==
    /\ []((constant_performance /\ field.field_state # Zeros)
            => \A i \in 1..(Len(history) - ResonanceImpulseConfig.min_steps + 1) :
                  \E k \in i..(i + ResonanceImpulseConfig.min_steps - 1) :
                      history[k].cri_triggered)
    /\ [][(/\ ret'.op = "calibration_step"
           /\ ret'.error = "none"
           /\ constant_performance'
           /\ field'.field_state # Zeros
           /\ cri.steps_since_last_impulse + 1 >= ResonanceImpulseConfig.min_steps
           /\ Len(j_log') >= WindowSize)
              => ret'.cri_triggered]_vars

\* a run of constant performance, every candidate rejected, that switched
\* regime twice
C20_Witness ==
    /\ constant_performance
    /\ field.field_state # Zeros
    /\ Len(history) = MaxRunSteps
    /\ \A i \in DOMAIN history : ~history[i].por_accepted
    /\ Cardinality({i \in DOMAIN history : history[i].cri_triggered}) >= 2

\* C21: no regime switch before min_steps calibration steps were executed:
\* none of the steps 1..min_steps-1 of a calibrator reports cri_triggered.
\* (initialize makes one CRI update of its own, so the counter reaches
\* min_steps with step min_steps-1.)
C21_NoImpulseBeforeMinSteps ==
    \A i \in DOMAIN history :
        history[i].cri_triggered => history[i].step >= ResonanceImpulseConfig.min_steps

\* the neighbors a kick call sampled, their scores and the starting score
kick_neighbors == generate_neighbors(The(call.config), call.draws)
kick_score(neighbor) ==
    IF ret.op = "update_kick"
    THEN estimate_quality_improvement(The(call.config), neighbor, call.current)
    ELSE estimate_stability_improvement(The(call.config), neighbor, call.current)
kick_start ==
    IF ret.op = "update_kick" THEN 10 * call.current.psi
    ELSE 60 * call.current.rho + 40 * call.current.omega

\* C22: a kick returns its input configuration when no sampled neighbor
\* scores strictly above the starting score (psi for the update kick,
\* 0.6*rho + 0.4*omega for the stabilization kick), and otherwise the
\* neighbor of the highest score, the first of those that share it.
C22_KickReturnsBestNeighbor ==
    ret.op \in {"update_kick", "stabilization_kick"}
        => IF \A i \in DOMAIN kick_neighbors : kick_score(kick_neighbors[i]) <= kick_start
           THEN The(ret.value) = The(call.config)
           ELSE \E i \in DOMAIN kick_neighbors :
                   /\ The(ret.value) = kick_neighbors[i]
                   /\ \A j \in DOMAIN kick_neighbors :
                         /\ kick_score(kick_neighbors[j]) <= kick_score(kick_neighbors[i])
                         /\ j < i => kick_score(kick_neighbors[j])
                                        < kick_score(kick_neighbors[i])

\* an update kick with two different neighbors of the same, highest score:
\* the first is returned
C22_Witness ==
    /\ ret.op = "update_kick"
    /\ Len(kick_neighbors) = 2
    /\ kick_neighbors[1] # kick_neighbors[2]
    /\ kick_score(kick_neighbors[1]) = kick_score(kick_neighbors[2])
    /\ kick_score(kick_neighbors[1]) > kick_start
    /\ The(ret.value) = kick_neighbors[1]

\* C23: iterate applies the composed operator at most num_iterations times;
\* it stops right after the first application that moved less than 0.01, and
\* not before; its convergence rate is the last recorded distance over the
\* first when it recorded two or more, and 0 otherwise.
C23_IterateTerminates ==
    ret.op = "iterate"
        => LET d == The(ret.value).distances
               n == Len(d)
           IN  /\ n <= call.num_iterations
               /\ \A i \in 1..(n - 1) : d[i] >= 10
               /\ n < call.num_iterations => (n >= 1 /\ d[n] < 10)
               /\ The(ret.value).convergence_rate =
                     (IF n >= 2 THEN (1000 * d[n]) \div d[1] ELSE 0)

\* an iterate call allowed two applications that stopped after the first,
\* and one that moved twice and reports a rate above 0
C23_Witness ==
    /\ ret.op = "iterate"
    /\ call.num_iterations = MaxIterations
    /\ Len(The(ret.value).distances) >= 2
    /\ The(ret.value).convergence_rate > 0
    /\ The(ret.value).config # The(call.config)

C23_WitnessEarlyStop ==
    /\ ret.op = "iterate"
    /\ call.num_iterations = MaxIterations
    /\ Len(The(ret.value).distances) = 1

\* the sequence has each distance strictly below the one before it
strictly_decreasing(d) == \A i \in 1..(Len(d) - 1) : d[i + 1] < d[i]

\* C24: is_contractive(distances) is true exactly when the sequence of
\* distances is strictly decreasing, for every sequence, those of length 0
\* and 1 included.
C24_ContractiveIffDecreasing ==
    ret.op = "is_contractive"
        => (The(ret.value) <=> strictly_decreasing(call.distances))

\* C25 as stated: in a completed step, a rejection without an impulse leaves
\* the current configuration, the current performance and the configuration
\* space as they were; an acceptance makes the candidate the current
\* configuration and the space's pointer, with one entry appended to the
\* space's history, and its estimate the current performance. (An impulse
\* in the step of an acceptance refutes it: the regime configuration
\* replaces the candidate and is appended after it.)
C25_AcceptanceMakesCandidateCurrent ==
    [][(ret'.op = "calibration_step" /\ ret'.error = "none")
         => /\ (~ret'.accepted /\ ~ret'.cri_triggered)
                 => UNCHANGED <<current_config, current_performance, config_space>>
            /\ ret'.accepted
                 => /\ current_config' = ret'.candidate_config
                    /\ current_performance' = ret'.candidate_performance
                    /\ config_space'.current = ret'.candidate_config
                    /\ config_space'.history =
                          Append(config_space.history, The(ret'.candidate_config))]_vars

\* C25, amended: in a completed step, a rejection without an impulse leaves
\* the current configuration, the current performance and the configuration
\* space as they were; an acceptance makes the candidate's estimate the
\* current performance, and, without an impulse, the candidate the current
\* configuration and the space's pointer, with one entry appended to the
\* space's history; with an impulse, the regime configuration is current
\* and the space's history gains the candidate and then the regime
\* configuration.
C25_StepFrame ==
    [][(ret'.op = "calibration_step" /\ ret'.error = "none")
         => /\ (~ret'.accepted /\ ~ret'.cri_triggered)
                 => UNCHANGED <<current_config, current_performance, config_space>>
            /\ ret'.accepted => current_performance' = ret'.candidate_performance
            /\ (ret'.accepted /\ ~ret'.cri_triggered)
                 => /\ current_config' = ret'.candidate_config
                    /\ config_space'.current = ret'.candidate_config
                    /\ config_space'.history =
                          Append(config_space.history, The(ret'.candidate_config))
            /\ (ret'.accepted /\ ret'.cri_triggered)
                 => /\ config_space'.current = current_config'
                    /\ config_space'.history =
                          Append(Append(config_space.history, The(ret'.candidate_config)),
                                 The(current_config'))]_vars

\* a step that accepted a candidate other than the configuration it started
\* from, without an impulse
C25_Witness ==
    /\ ret.op = "calibration_step"
    /\ ret.error = "none"
    /\ ret.accepted
    /\ ~ret.cri_triggered
    /\ current_config = ret.candidate_config
    /\ Len(config_space.history) >= 3
    /\ config_space.history[Len(config_space.history)] = The(current_config)
    /\ config_space.history[Len(config_space.history) - 1] # The(current_config)

C27_PerformanceNonDecreasing ==
    /\ [](/\ \A i \in 1..(Len(j_log) - 1) : j_log[i] <= j_log[i + 1]
          /\ ~is_degrading(cri.history, ResonanceImpulseConfig.degradation_threshold))
    /\ [][(ret'.op = "calibration_step" /\ ret'.error = "none")
            => \A k \in {"psi", "rho", "omega"} :
                  The(current_performance)[k] <= The(current_performance')[k]]_vars

\* a run whose performance rose, with two full windows of J behind it
C27_Witness ==
    /\ Len(cri.history) >= 2 * WindowSize
    /\ Len(j_log) >= 2
    /\ j_log[1] < j_log[Len(j_log)]
    /\ \E i \in DOMAIN history : history[i].por_accepted

\* C28: a completed step that reports no regime switch leaves the
\* algorithm of the current configuration as it was before the step.
C28_AlgorithmChangesOnlyByImpulse ==
    [][(ret'.op = "calibration_step" /\ ret'.error = "none" /\ ~ret'.cri_triggered)
         => The(current_config').algorithm = The(current_config).algorithm]_vars

\* a step after a regime switch that accepted a new configuration without
\* an impulse: the configuration changed, the switched algorithm stayed
C28_Witness ==
    /\ ret.op = "calibration_step"
    /\ ret.error = "none"
    /\ ret.accepted
    /\ ~ret.cri_triggered
    /\ The(current_config).algorithm # default_configuration.algorithm
    /\ Len(config_space.history) >= 2
    /\ config_space.history[Len(config_space.history)] = The(current_config)
    /\ config_space.history[Len(config_space.history) - 1] # The(current_config)
    /\ config_space.history[Len(config_space.history) - 1].algorithm
          = The(current_config).algorithm

\* C29: the persisted history is cumulative across invocations of the step
\* command that share the state file and the history file: whenever no
\* invocation is under way, the history file holds one record for every
\* step the state file counts, with step indices 1, 2, ... in order.
C29_HistoryFileCumulative ==
    (cli.pc = "idle" /\ history_file # None /\ state_file # None)
        => /\ Len(The(history_file)) = The(state_file).step_count
           /\ \A i \in DOMAIN The(history_file) : The(history_file)[i].step = i

\* C30: the lifecycle of an enabled AutoTuner. A propose_new_config() on a
\* tuner that is not initialized raises the not-initialized error, runs no
\* step and writes neither file; on an initialized tuner a call that
\* returns a proposal ran exactly one calibration step and then saved the
\* state and the history; reset() removes the state file and leaves the
\* tuner uninitialized with a calibrator as constructed.
C30_TunerLifecycle ==
    /\ [][tuner_ret'.op = "propose_new_config"
            => IF ~initialized
               THEN /\ tuner_ret'.error = "RuntimeError"
                    /\ UNCHANGED <<calibrator, state_file, history_file>>
               ELSE /\ tuner_ret'.error # "RuntimeError"
                    /\ tuner_ret'.error = "none"
                          => /\ step_count' = step_count + 1
                             /\ Len(history') = Len(history) + 1
                             /\ history'[Len(history')].step = step_count'
                             /\ The(tuner_ret'.value).step = step_count'
                             /\ state_file' # None
                             /\ The(state_file').step_count = step_count'
                             /\ history_file' = Some(history')]_vars
    /\ [][tuner_ret'.op = "reset"
            => /\ state_file' = None
               /\ ~initialized'
               /\ step_count' = 0
               /\ history' = <<>>
               /\ current_config' = None
               /\ current_performance' = None]_vars

\* a propose_new_config() that raised on a tuner that had been initialized,
\* had stepped and was then reset
C30_Witness ==
    /\ tuner_ret.op = "propose_new_config"
    /\ tuner_ret.error = "RuntimeError"
    /\ ~initialized
    /\ state_file = None
    /\ history_file # None
    /\ Len(The(history_file)) >= 1
    /\ step_count = 0

====
